---- MODULE Spec2Model ----
(***************************************************************************)
(* Model of google-voice-takeout-parser (main.go): the extractor that      *)
(* walks a parsed HTML tree and builds one Conversation, the ingest loop   *)
(* of main, and the SQLite writer insertConversation.                      *)
(*                                                                         *)
(* Representation.                                                         *)
(*  - A Go string read from a document is a sequence of tokens (each token *)
(*    stands for the characters it spells); "" is << >>.  String functions *)
(*    (TrimSpace, Split, Contains, HasSuffix ...) are computed on tokens.  *)
(*  - A document tree (html.Node) is the sequence of its nodes in          *)
(*    depth-first pre-order, each node carrying Type, Data, Attr and its   *)
(*    depth; the children of a node are the following nodes one level      *)
(*    deeper, up to the end of its subtree.                                *)
(*  - A Go map[string]string is [nil, kv]: nil tells a nil map from an     *)
(*    empty one (a write to a nil map panics), kv is the set of <<k, v>>.  *)
(*  - A time.Time is its instant, in minutes since 1970-01-01T00:00Z, and  *)
(*    the offset of its zone.  The zone of the machine, time.Local, is     *)
(*    UTC, so time.Parse gives a zone without a name for every offset      *)
(*    other than zero.                                                     *)
(***************************************************************************)
EXTENDS Integers, Sequences, FiniteSets, TLC

\* ------------------------------------------------------------------------
\* Bounds of the model
\* ------------------------------------------------------------------------
MaxMsgs == 2
MaxBody == 2
MaxFiles == 2
MaxEntries == 3
MaxRuns == 2
MaxTraversals == 2

\* ------------------------------------------------------------------------
\* strings
\* ------------------------------------------------------------------------
WhiteSpace == {" ", "\n", "\t", "\r"}

RECURSIVE TrimLeft(_, _)
TrimLeft(s, cutset) ==
    IF s /= << >> /\ Head(s) \in cutset THEN TrimLeft(Tail(s), cutset) ELSE s

RECURSIVE TrimRight(_, _)
TrimRight(s, cutset) ==
    IF s /= << >> /\ s[Len(s)] \in cutset
    THEN TrimRight(SubSeq(s, 1, Len(s) - 1), cutset)
    ELSE s

\* strings.Trim(s, cutset)
Trim(s, cutset) == TrimRight(TrimLeft(s, cutset), cutset)

\* strings.TrimSpace(s)
TrimSpace(s) == Trim(s, WhiteSpace)

\* strings.HasPrefix(s, prefix), strings.HasSuffix(s, suffix)
HasPrefix(s, prefix) ==
    Len(s) >= Len(prefix) /\ SubSeq(s, 1, Len(prefix)) = prefix

HasSuffix(s, suffix) ==
    Len(s) >= Len(suffix) /\ SubSeq(s, Len(s) - Len(suffix) + 1, Len(s)) = suffix

\* strings.TrimPrefix(s, prefix)
TrimPrefix(s, prefix) ==
    IF HasPrefix(s, prefix) THEN SubSeq(s, Len(prefix) + 1, Len(s)) ELSE s

\* strings.Index(s, substr): first position (1-based) of substr in s, 0 if none
Index(s, substr) ==
    LET hits == {i \in 1..(Len(s) - Len(substr) + 1) :
                    SubSeq(s, i, i + Len(substr) - 1) = substr}
    IN  IF hits = {} THEN 0 ELSE CHOOSE i \in hits : \A j \in hits : i <= j

\* strings.Contains(s, substr)
Contains(s, substr) == Index(s, substr) /= 0

\* strings.ReplaceAll(s, old, new) for single-token old and new
ReplaceAll(s, old, new) == [i \in 1..Len(s) |-> IF s[i] = old THEN new ELSE s[i]]

\* strings.Split(s, sep), sep non-empty: the parts between non-overlapping
\* occurrences of sep, scanning from the left
RECURSIVE Split(_, _)
Split(s, sep) ==
    LET i == Index(s, sep)
    IN  IF i = 0
        THEN << s >>
        ELSE << SubSeq(s, 1, i - 1) >> \o Split(SubSeq(s, i + Len(sep), Len(s)), sep)

\* strings.Join(parts, sep)
RECURSIVE Join(_, _)
Join(parts, sep) ==
    IF parts = << >> THEN << >>
    ELSE IF Len(parts) = 1 THEN parts[1]
    ELSE parts[1] \o sep \o Join(Tail(parts), sep)

\* ------------------------------------------------------------------------
\* time
\* ------------------------------------------------------------------------
\* a time.Time: the instant, in minutes since 1970-01-01T00:00Z, and the
\* offset of its zone from UTC, in minutes
Time(unix, offset) == [unix |-> unix, offset |-> offset]

\* time.Time{}: 0001-01-01T00:00Z
ZeroTime == Time(-1035593280, 0)

\* time.Parse(time.RFC3339, value) on the timestamps used in the documents:
\* the instant and the zone for an RFC 3339 string, an error for anything
\* else.  "Z" gives UTC, an offset a zone without a name that keeps it.
RFC3339Table ==
    { << <<"1970-01-01T00:01:00Z">>, Time(1, 0) >>,
      << <<"1970-01-01T00:02:00Z">>, Time(2, 0) >>,
      << <<"1970-01-01T01:02:00+01:00">>, Time(2, 60) >>,
      << <<"1970-01-01T00:17:00+00:15">>, Time(2, 15) >>,
      << <<"1970-01-01T00:03:00Z">>, Time(3, 0) >>,
      << <<"1970-01-01T00:04:00Z">>, Time(4, 0) >>,
      << <<"0001-01-01T00:00:00Z">>, ZeroTime >> }

\* t.String(), "2006-01-02 15:04:05 -0700 MST", the text the database driver
\* stores for a time.Time, by what orders two such texts: the date and the
\* clock of the zone, then the sign of the offset, "+" before "-", then its
\* digits
timeString(t) ==
    << t.unix + t.offset,
       IF t.offset < 0 THEN 1 ELSE 0,
       IF t.offset < 0 THEN 0 - t.offset ELSE t.offset >>

\* text a sorts before text b
textLess(a, b) ==
    \E k \in 1..Len(a) : a[k] < b[k] /\ \A l \in 1..(k - 1) : a[l] = b[l]

\* the abbreviation t.String() prints for the zone, the "MST" of the
\* layout: "UTC" for UTC, and for a zone without a name its offset once
\* more, "+hhmm" or "-hhmm"; the digits hhmm as a number, 0 for "UTC"
zoneAbbreviation(t) ==
    LET minutes == IF t.offset < 0 THEN 0 - t.offset ELSE t.offset
    IN  (minutes \div 60) * 100 + (minutes % 60)

\* rows.Scan of a timestamp column into a time.Time: the driver parses the
\* stored text with the layout of t.String().  time.Parse takes a signed
\* number for the abbreviation of a zone only up to 23, so a text "+0015
\* +0015" is read and a text "+0100 +0100" is not; the text is then handed
\* on as a string, which Scan does not store into a time.Time.
scanTimestamp(t) == [err |-> zoneAbbreviation(t) > 23, t |-> t]

timeParse(value) ==
    IF \E e \in RFC3339Table : e[1] = value
    THEN [err |-> FALSE, t |-> (CHOOSE e \in RFC3339Table : e[1] = value)[2]]
    ELSE [err |-> TRUE, t |-> ZeroTime]

\* ------------------------------------------------------------------------
\* map[string]string
\* ------------------------------------------------------------------------
NilMap == [nil |-> TRUE, kv |-> {}]
MakeMap == [nil |-> FALSE, kv |-> {}]
Keys(m) == {e[1] : e \in m.kv}
HasKey(m, k) == k \in Keys(m)
MapGet(m, k) == IF HasKey(m, k) THEN (CHOOSE e \in m.kv : e[1] = k)[2] ELSE << >>
\* m[k] = v on a non-nil map
MapPut(m, k, v) == [nil |-> FALSE, kv |-> {e \in m.kv : e[1] /= k} \cup {<<k, v>>}]

\* ------------------------------------------------------------------------
\* html.Node
\* ------------------------------------------------------------------------
ElementNode == "ElementNode"
TextNode == "TextNode"
DocumentNode == "DocumentNode"

\* last index of the subtree rooted at node i
SubtreeEnd(doc, i) ==
    LET stops == {j \in (i + 1)..Len(doc) : doc[j].depth <= doc[i].depth}
    IN  IF stops = {} THEN Len(doc)
        ELSE (CHOOSE j \in stops : \A k \in stops : j <= k) - 1

\* n.Parent: index of the parent of node i (0 for the root)
Parent(doc, i) ==
    LET ups == {j \in 1..(i - 1) : doc[j].depth = doc[i].depth - 1}
    IN  IF ups = {} THEN 0 ELSE CHOOSE j \in ups : \A k \in ups : k <= j

\* some attribute of n has this key and value
HasAttr(n, key, val) ==
    \E k \in 1..Len(n.Attr) : n.Attr[k].Key = key /\ n.Attr[k].Val = val

\* extractText: the text of all text nodes of the subtree, concatenated in
\* document order, then TrimSpace
RECURSIVE extractTextWalk(_, _, _)
extractTextWalk(doc, i, hi) ==
    IF i > hi THEN << >>
    ELSE (IF doc[i].Type = TextNode THEN doc[i].Data ELSE << >>)
         \o extractTextWalk(doc, i + 1, hi)

extractText(doc, i) == TrimSpace(extractTextWalk(doc, i, SubtreeEnd(doc, i)))

\* extractTitle: called on a title element, whose own text it returns
extractTitle(doc, i) ==
    LET hits == {j \in i..SubtreeEnd(doc, i) :
                    doc[j].Type = ElementNode /\ doc[j].Data = "title"}
    IN  IF hits = {} THEN << >>
        ELSE extractText(doc, CHOOSE j \in hits : \A k \in hits : j <= k)

\* extractPhoneNumber(n): the first href attribute of n itself that starts
\* with tel:, without the prefix
extractPhoneNumber(doc, i) ==
    IF i = 0 THEN << >>
    ELSE LET n == doc[i]
             hits == {k \in 1..Len(n.Attr) :
                        n.Attr[k].Key = "href" /\ HasPrefix(n.Attr[k].Val, <<"tel:">>)}
         IN  IF hits = {} THEN << >>
             ELSE TrimPrefix(n.Attr[CHOOSE k \in hits : \A l \in hits : k <= l].Val,
                             <<"tel:">>)

\* ------------------------------------------------------------------------
\* Conversation, Message
\* ------------------------------------------------------------------------
\* var msg Message
ZeroMessage ==
    [Timestamp |-> ZeroTime, Sender |-> << >>, SenderNumber |-> << >>,
     Content |-> << >>, Images |-> << >>]

\* var conv Conversation: every field zero, Participants a nil map
ZeroConversation ==
    [Type |-> "", Participants |-> NilMap, Timestamp |-> ZeroTime,
     Duration |-> << >>, Messages |-> << >>, Transcript |-> << >>,
     SourceFile |-> << >>]

\* Conversation{Participants: make(map[string]string)}
NewConversation == [ZeroConversation EXCEPT !.Participants = MakeMap]

\* ------------------------------------------------------------------------
\* the extractor
\* ------------------------------------------------------------------------
\* as if a title that is not RFC 3339 gave the Unix epoch without an error
parseTimestampOrEpoch(n) ==
    LET hits == {k \in 1..Len(n.Attr) : n.Attr[k].Key = "title"}
    IN  IF hits = {} THEN [err |-> TRUE, t |-> ZeroTime]
        ELSE [err |-> FALSE,
              t |-> IF timeParse(n.Attr[CHOOSE k \in hits : \A l \in hits : k <= l].Val).err
                    THEN Time(0, 0)
                    ELSE timeParse(n.Attr[CHOOSE k \in hits : \A l \in hits : k <= l].Val).t]

\* parseTimestamp: time.Parse of the first title attribute, whatever its
\* outcome; an error when there is no title attribute
parseTimestamp(n) ==
    LET hits == {k \in 1..Len(n.Attr) : n.Attr[k].Key = "title"}
    IN  IF hits = {} THEN [err |-> TRUE, t |-> ZeroTime]
        ELSE timeParse(n.Attr[CHOOSE k \in hits : \A l \in hits : k <= l].Val)

\* parseMessageTimestamp: the first title attribute that parses, else zero
parseMessageTimestamp(n) ==
    LET hits == {k \in 1..Len(n.Attr) :
                    n.Attr[k].Key = "title" /\ ~timeParse(n.Attr[k].Val).err}
    IN  IF hits = {} THEN ZeroTime
        ELSE timeParse(n.Attr[CHOOSE k \in hits : \A l \in hits : k <= l].Val).t

\* parseParticipants: every element of the subtree with class "fn" maps its
\* text to the tel: number of its parent; a later entry replaces an earlier
\* one with the same name
RECURSIVE parseParticipantsWalk(_, _, _, _)
parseParticipantsWalk(doc, i, hi, participants) ==
    IF i > hi THEN participants
    ELSE parseParticipantsWalk(doc, i + 1, hi,
            IF doc[i].Type = ElementNode /\ HasAttr(doc[i], "class", <<"fn">>)
            THEN MapPut(participants, extractText(doc, i),
                        extractPhoneNumber(doc, Parent(doc, i)))
            ELSE participants)

parseParticipants(doc, i) ==
    parseParticipantsWalk(doc, i, SubtreeEnd(doc, i), MakeMap)

\* parseSenderAndNumber: within a cite, the text of the last abbr/span of
\* class "fn" and the number of the last a element with a tel: link
RECURSIVE parseSenderAndNumberWalk(_, _, _, _)
parseSenderAndNumberWalk(doc, i, hi, acc) ==
    IF i > hi THEN acc
    ELSE LET n == doc[i]
             tels == IF n.Type = ElementNode /\ n.Data = "a"
                     THEN SelectSeq(n.Attr, LAMBDA a :
                            a.Key = "href" /\ HasPrefix(a.Val, <<"tel:">>))
                     ELSE << >>
             next ==
                IF n.Type = ElementNode /\ n.Data \in {"abbr", "span"}
                   /\ HasAttr(n, "class", <<"fn">>)
                THEN [acc EXCEPT !.sender = extractText(doc, i)]
                ELSE IF tels /= << >>
                THEN [acc EXCEPT !.number = TrimPrefix(tels[Len(tels)].Val, <<"tel:">>)]
                ELSE acc
         IN  parseSenderAndNumberWalk(doc, i + 1, hi, next)

parseSenderAndNumber(doc, i) ==
    parseSenderAndNumberWalk(doc, i, SubtreeEnd(doc, i),
                             [sender |-> << >>, number |-> << >>])

\* parseMessage: one walk over the message node; the sender is taken from the
\* last cite, and assigned to the message after the walk
RECURSIVE parseMessageWalk(_, _, _, _)
parseMessageWalk(doc, i, hi, acc) ==
    IF i > hi THEN acc
    ELSE LET n == doc[i]
             srcs == SelectSeq(n.Attr, LAMBDA a : a.Key = "src")
             next ==
                IF n.Type /= ElementNode THEN acc
                ELSE IF n.Data = "abbr"
                THEN IF HasAttr(n, "class", <<"dt">>)
                     THEN [acc EXCEPT !.msg.Timestamp = parseMessageTimestamp(n)]
                     ELSE acc
                ELSE IF n.Data = "cite"
                THEN [acc EXCEPT !.senderName = parseSenderAndNumber(doc, i).sender,
                                 !.senderNumber = parseSenderAndNumber(doc, i).number]
                ELSE IF n.Data = "q"
                THEN [acc EXCEPT !.msg.Content = extractText(doc, i)]
                ELSE IF n.Data = "img"
                THEN [acc EXCEPT !.msg.Images =
                        @ \o [k \in 1..Len(srcs) |-> srcs[k].Val]]
                ELSE acc
         IN  parseMessageWalk(doc, i + 1, hi, next)

\* as if an img replaced the images found before it
parseMessageLastImage(doc, i) ==
    LET acc == parseMessageWalk(doc, i, SubtreeEnd(doc, i),
                    [msg |-> ZeroMessage, senderName |-> << >>, senderNumber |-> << >>])
        n == Len(acc.msg.Images)
    IN  [acc.msg EXCEPT !.Sender = acc.senderName, !.SenderNumber = acc.senderNumber,
                        !.Images = IF n = 0 THEN << >> ELSE << @[n] >>]

parseMessage(doc, i) ==
    LET acc == parseMessageWalk(doc, i, SubtreeEnd(doc, i),
                    [msg |-> ZeroMessage, senderName |-> << >>, senderNumber |-> << >>])
    IN  [acc.msg EXCEPT !.Sender = acc.senderName, !.SenderNumber = acc.senderNumber]

\* parseMessages: one Message per class attribute "message" of each div of
\* the subtree, in document order
RECURSIVE parseMessagesWalk(_, _, _)
parseMessagesWalk(doc, i, hi) ==
    IF i > hi THEN << >>
    ELSE LET n == doc[i]
             hits == IF n.Type = ElementNode /\ n.Data = "div"
                     THEN SelectSeq(n.Attr, LAMBDA a :
                            a.Key = "class" /\ a.Val = <<"message">>)
                     ELSE << >>
         IN  [k \in 1..Len(hits) |-> parseMessage(doc, i)]
             \o parseMessagesWalk(doc, i + 1, hi)

\* as if only the divs directly under the chat log were looked at
parseMessagesOfChildren(doc, i) ==
    LET kids == SelectSeq([j \in 1..(SubtreeEnd(doc, i) - i) |-> i + j],
                          LAMBDA j : /\ doc[j].depth = doc[i].depth + 1
                                     /\ doc[j].Type = ElementNode /\ doc[j].Data = "div"
                                     /\ HasAttr(doc[j], "class", <<"message">>))
    IN  [k \in 1..Len(kids) |-> parseMessage(doc, kids[k])]

parseMessages(doc, i) == parseMessagesWalk(doc, i, SubtreeEnd(doc, i))

\* the classification of one text node of a call record: the first marker,
\* in this order, that the text contains; "" when it contains none
classifyText(text) ==
    IF Contains(text, <<"Voicemail">>) THEN "voicemail"
    ELSE IF Contains(text, <<"Placed call">>) THEN "placed_call"
    ELSE IF Contains(text, <<"Received call">>) THEN "received_call"
    ELSE IF Contains(text, <<"Missed call">>) THEN "missed_call"
    ELSE ""

\* parseCallOrVoicemail: one walk over the haudio node, starting from a zero
\* Conversation; every node that matches assigns its field again
RECURSIVE parseCallOrVoicemailWalk(_, _, _, _)
parseCallOrVoicemailWalk(doc, i, hi, conv) ==
    IF i > hi THEN conv
    ELSE LET n == doc[i]
             published == parseTimestamp(n)
             c1 == IF HasAttr(n, "class", <<"published">>) /\ ~published.err
                   THEN [conv EXCEPT !.Timestamp = published.t] ELSE conv
             c2 == IF HasAttr(n, "class", <<"duration">>)
                   THEN [c1 EXCEPT !.Duration =
                            Trim(extractText(doc, i), {"(", ")"})] ELSE c1
             next ==
                IF n.Type = ElementNode
                THEN IF n.Data = "div"
                     THEN IF HasAttr(n, "class", <<"contributor vcard">>)
                          THEN [conv EXCEPT !.Participants = parseParticipants(doc, i)]
                          ELSE conv
                     ELSE IF n.Data = "span"
                     THEN IF HasAttr(n, "class", <<"full-text">>)
                          THEN [conv EXCEPT !.Transcript = extractText(doc, i)]
                          ELSE conv
                     ELSE IF n.Data = "abbr" THEN c2
                     ELSE conv
                ELSE IF n.Type = TextNode
                THEN IF classifyText(TrimSpace(n.Data)) /= ""
                     THEN [conv EXCEPT !.Type = classifyText(TrimSpace(n.Data))]
                     ELSE conv
                ELSE conv
         IN  parseCallOrVoicemailWalk(doc, i + 1, hi, next)

parseCallOrVoicemail(doc, i) ==
    parseCallOrVoicemailWalk(doc, i, SubtreeEnd(doc, i), ZeroConversation)

\* parseFile, case "title": the title text with newlines turned into
\* spaces is split on " to "; when that gives two parts, each trimmed part
\* missing from Participants is written to it with an empty number.  st is
\* [conv, panic]: a write to a nil map panics.
parseFileTitle(doc, i, st) ==
    LET title == ReplaceAll(extractTitle(doc, i), "\n", " ")
        parts == Split(title, <<" ", "to", " ">>)
        sender == TrimSpace(parts[1])
        recipient == TrimSpace(parts[2])
        conv == st.conv
        p1 == IF HasKey(conv.Participants, sender) THEN conv.Participants
              ELSE MapPut(conv.Participants, sender, << >>)
        p2 == IF HasKey(p1, recipient) THEN p1 ELSE MapPut(p1, recipient, << >>)
    IN  IF Len(parts) /= 2 THEN st
        ELSE IF conv.Participants.nil THEN [st EXCEPT !.panic = TRUE]
        ELSE [st EXCEPT !.conv.Participants = p2]

\* parseFile, case "hChatLog hfeed": the type becomes chat, the participants
\* found under the div are written into the existing map, the messages are
\* replaced, and the timestamp is set from the first message if there is one
parseFileChat(doc, i, st) ==
    LET found == parseParticipants(doc, i)
        messages == parseMessages(doc, i)
        merged == [nil |-> FALSE,
                   kv |-> {e \in st.conv.Participants.kv : ~HasKey(found, e[1])}
                          \cup found.kv]
        c1 == [st.conv EXCEPT !.Type = "chat"]
        c2 == [c1 EXCEPT !.Participants = IF found.kv = {} THEN @ ELSE merged,
                         !.Messages = messages]
        c3 == IF Len(messages) > 0
              THEN [c2 EXCEPT !.Timestamp = messages[1].Timestamp] ELSE c2
    IN  IF found.kv /= {} /\ st.conv.Participants.nil
        THEN [conv |-> c1, panic |-> TRUE]
        ELSE [conv |-> c3, panic |-> FALSE]

\* parseFile, case "haudio": the Conversation built so far is replaced by
\* the one parseCallOrVoicemail returns
parseFileAudio(doc, i, st) ==
    [conv |-> parseCallOrVoicemail(doc, i), panic |-> FALSE]

\* parseFile, case "div": the attributes are examined in order, and each
\* class attribute with one of the two marker values runs its branch
RECURSIVE parseFileDiv(_, _, _, _)
parseFileDiv(doc, i, k, st) ==
    IF k > Len(doc[i].Attr) \/ st.panic THEN st
    ELSE LET a == doc[i].Attr[k]
         IN  parseFileDiv(doc, i, k + 1,
                IF a.Key = "class" /\ a.Val = <<"hChatLog hfeed">>
                THEN parseFileChat(doc, i, st)
                ELSE IF a.Key = "class" /\ a.Val = <<"haudio">>
                THEN parseFileAudio(doc, i, st)
                ELSE st)

\* one call of parseFile's closure f on node i, before it descends
parseFileVisit(doc, i, conv) ==
    LET n == doc[i]
        st == [conv |-> conv, panic |-> FALSE]
    IN  IF n.Type = ElementNode /\ n.Data = "title" THEN parseFileTitle(doc, i, st)
        ELSE IF n.Type = ElementNode /\ n.Data = "div" THEN parseFileDiv(doc, i, 1, st)
        ELSE st

\* parseFile on a tree html.Parse has built: f visits every node in
\* depth-first pre-order; the result is the Conversation, or a panic
RECURSIVE parseFileWalk(_, _, _)
parseFileWalk(doc, i, st) ==
    IF i > Len(doc) \/ st.panic THEN st
    ELSE parseFileWalk(doc, i + 1, parseFileVisit(doc, i, st.conv))

parseFile(doc) == parseFileWalk(doc, 1, [conv |-> NewConversation, panic |-> FALSE])

\* lgr.Error("parse time err", ...) in parseCallOrVoicemail: the number of
\* records it logs on the subtree of node i, one for every class attribute
\* "published" of an abbr whose parseTimestamp fails
parseTimeErrs(doc, i) ==
    LET abbrs == {j \in i..SubtreeEnd(doc, i) :
                    doc[j].Type = ElementNode /\ doc[j].Data = "abbr"}
        bad == UNION {{<<j, k>> : k \in {k \in 1..Len(doc[j].Attr) :
                                        /\ doc[j].Attr[k].Key = "class"
                                        /\ doc[j].Attr[k].Val = <<"published">>
                                        /\ parseTimestamp(doc[j]).err}} :
                      j \in abbrs}
    IN  Cardinality(bad)

\* the records one call of parseFile's closure f on node i logs: those of
\* every haudio branch it runs before a panic, if any, ends it
RECURSIVE parseFileDivLogged(_, _, _, _)
parseFileDivLogged(doc, i, k, st) ==
    IF k > Len(doc[i].Attr) \/ st.panic THEN 0
    ELSE LET a == doc[i].Attr[k]
         IN  IF a.Key = "class" /\ a.Val = <<"hChatLog hfeed">>
             THEN parseFileDivLogged(doc, i, k + 1, parseFileChat(doc, i, st))
             ELSE IF a.Key = "class" /\ a.Val = <<"haudio">>
             THEN parseTimeErrs(doc, i)
                    + parseFileDivLogged(doc, i, k + 1, parseFileAudio(doc, i, st))
             ELSE parseFileDivLogged(doc, i, k + 1, st)
parseFileVisitLogged(doc, i, conv) ==
    IF doc[i].Type = ElementNode /\ doc[i].Data = "div"
    THEN parseFileDivLogged(doc, i, 1, [conv |-> conv, panic |-> FALSE])
    ELSE 0

\* the records parseFile logs on a whole tree
RECURSIVE parseFileWalkLogged(_, _, _)
parseFileWalkLogged(doc, i, st) ==
    IF i > Len(doc) \/ st.panic THEN 0
    ELSE parseFileVisitLogged(doc, i, st.conv)
            + parseFileWalkLogged(doc, i + 1, parseFileVisit(doc, i, st.conv))
parseFileLogged(doc) ==
    parseFileWalkLogged(doc, 1, [conv |-> NewConversation, panic |-> FALSE])

\* the log after n more records of lgr, which carries the name of the file
LoggedTimes(l, name, msg, n) == l \o [k \in 1..n |-> [file |-> name, msg |-> msg]]

\* ------------------------------------------------------------------------
\* document trees: the inputs of the extractor
\* ------------------------------------------------------------------------
Attr(key, val) == [Key |-> key, Val |-> val]

RECURSIVE Flatten(_)
Flatten(trees) == IF trees = << >> THEN << >> ELSE Head(trees) \o Flatten(Tail(trees))

Deeper(tree) == [k \in 1..Len(tree) |-> [tree[k] EXCEPT !.depth = @ + 1]]

\* a text node, an element with its children, the tree html.Parse returns
Txt(text) == << [Type |-> TextNode, Data |-> text, Attr |-> << >>, depth |-> 0] >>
El(tag, attrs, kids) ==
    << [Type |-> ElementNode, Data |-> tag, Attr |-> attrs, depth |-> 0] >>
    \o Deeper(Flatten(kids))
Class(c) == << Attr("class", <<c>>) >>
Document(head, body) ==
    << [Type |-> DocumentNode, Data |-> << >>, Attr |-> << >>, depth |-> 0] >>
    \o Deeper(El("html", << >>, << El("head", << >>, head), El("body", << >>, body) >>))

Ann == <<"Ann">>
Bob == <<"Bob">>
T1 == <<"1970-01-01T00:01:00Z">>
T2 == <<"1970-01-01T01:02:00+01:00">>
T3 == <<"1970-01-01T00:03:00Z">>
\* a stamp of a zone a quarter of an hour east: the instant of 00:02Z
TQuarter == <<"1970-01-01T00:17:00+00:15">>
BadTime == <<"yesterday">>

\* <a class="tel" href="tel:N"><span class="fn">name</span></a>
Tel(name, number) ==
    El("a", << Attr("class", <<"tel">>), Attr("href", <<"tel:", number>>) >>,
       << El("span", Class("fn"), << Txt(name) >>) >>)
\* the same with the fn node one level further down
TelDeep(name, number) ==
    El("a", << Attr("class", <<"tel">>), Attr("href", <<"tel:", number>>) >>,
       << El("span", << >>, << El("abbr", Class("fn"), << Txt(name) >>) >>) >>)
Dt(stamp) == El("abbr", << Attr("class", <<"dt">>), Attr("title", stamp) >>, << >>)
Cite(kids) == El("cite", Class("sender vcard"), kids)
Q(text) == El("q", << >>, << Txt(text) >>)
Img(src) == El("img", << Attr("src", src) >>, << >>)
Message(kids) == El("div", Class("message"), kids)

Pic1 == <<"Ann", " ", "-", " ", "Text", " ", "-", " ", "a", "-", "1", "-", "1">>
Pic2 == <<"Ann", " ", "-", " ", "Text", " ", "-", " ", "a", "-", "1", "-", "2">>
Pic3 == <<"Ann", " ", "-", " ", "Text", " ", "-", " ", "b", "-", "1">>

MessageNodes ==
    { Message(<< Dt(T1), Cite(<< Tel(Ann, "+1") >>), Q(<<"hi">>) >>),
      Message(<< Dt(T2), Cite(<< Tel(Bob, "+2") >>), Q(<<"yo", " ", "there">>) >>),
      Message(<< Dt(T3), Cite(<< Tel(Ann, "+1") >>), Img(Pic1) >>),
      Message(<< Dt(BadTime), Cite(<< TelDeep(Ann, "+1") >>), Q(<<"late">>) >>),
      Message(<< Dt(T2), Q(<<"anonymous">>) >>),
      Message(<< Dt(T1),
                 Cite(<< El("a", << Attr("href", <<"tel:", "+3">>) >>, << >>) >>),
                 Q(<<"number", " ", "only">>) >>),
      Message(<< Cite(<< El("span", Class("fn"), << Txt(Bob) >>) >>),
                 Img(Pic1), Img(Pic2) >>) }

\* all sequences over S of length at most n
RECURSIVE SeqsUpTo(_, _)
SeqsUpTo(S, n) ==
    IF n = 0 THEN { << >> }
    ELSE LET shorter == SeqsUpTo(S, n - 1)
         IN  shorter \cup {Append(q, x) : q \in {r \in shorter : Len(r) = n - 1}, x \in S}

ChatLog(kids) == El("div", Class("hChatLog hfeed"), kids)

ChatLogs == {ChatLog(msgs) : msgs \in SeqsUpTo(MessageNodes, MaxMsgs)}

Contributor(kids) == El("div", Class("contributor vcard"), kids)
Published(stamp) ==
    El("abbr", << Attr("class", <<"published">>), Attr("title", stamp) >>, << >>)
Duration(text) == El("abbr", Class("duration"), << Txt(text) >>)
FullText(text) == El("span", Class("full-text"), << Txt(text) >>)
Audio(kids) == El("div", Class("haudio"), kids)

Voicemail ==
    Audio(<< Txt(<<"\n", "Voicemail", " ", "from", "\n">>),
             Contributor(<< Tel(Ann, "+1") >>), Published(T2),
             FullText(<<"call", " ", "me">>), Duration(<<"(", "00:00:18", ")">>) >>)
MissedCall ==
    Audio(<< Txt(<<"Missed call", " ", "from">>),
             Contributor(<< Tel(Bob, "+2") >>), Published(T1) >>)
PlacedCallNoContributor ==
    Audio(<< Txt(<<"Placed call", " ", "to">>), Published(T3),
             Duration(<<"(", "00:01:00", ")">>) >>)
VoicemailAboutMissedCall ==
    Audio(<< Txt(<<"Voicemail", " ", "from">>),
             Contributor(<< Tel(Ann, "+1") >>), Published(T2),
             FullText(<<"sorry", " ", "for", " ", "the", " ", "Missed call">>) >>)
AudioNoMarker ==
    Audio(<< Contributor(<< Tel(Ann, "+1") >>), Published(T1) >>)
ReceivedCallBadTime ==
    Audio(<< Txt(<<"Received call", " ", "from">>),
             Contributor(<< TelDeep(Bob, "+2") >>), Published(BadTime),
             Duration(<<"(", "00:02:00", ")">>) >>)
MissedCallWithText ==
    Audio(<< Txt(<<"Missed call", " ", "after", " ", "Voicemail">>),
             Contributor(<< Tel(Bob, "+2") >>), Published(T1),
             FullText(<<"hello">>) >>)

Audios ==
    { Voicemail, MissedCall, PlacedCallNoContributor, VoicemailAboutMissedCall,
      AudioNoMarker, ReceivedCallBadTime, MissedCallWithText }

Title(text) == El("title", << >>, << Txt(text) >>)
TitleAnnToBob == Title(<<"Ann", " ", "to", " ", "Bob">>)

Heads ==
    { << >>,
      << TitleAnnToBob >>,
      << Title(<<"Ann">>) >>,
      << Title(<<"\n", "Ann", "\n", "to", "\n", "Bob", "\n">>) >>,
      << Title(<<"Ann", " ", "to", " ", "Bob", " ", "to", " ", "Cy">>) >> }

\* the blocks combined in documents with several markers
Blocks ==
    { ChatLog(<< Message(<< Dt(T1), Cite(<< Tel(Bob, "+2") >>), Q(<<"hi">>) >>) >>),
      ChatLog(<< >>),
      Voicemail,
      PlacedCallNoContributor,
      TitleAnnToBob }

\* a marker inside the other marker, a title inside a call record
Nested ==
    { << ChatLog(<< Message(<< Dt(T1), Cite(<< Tel(Bob, "+2") >>), Q(<<"hi">>) >>),
                    MissedCall >>) >>,
      << Audio(<< Txt(<<"Voicemail">>), Contributor(<< Tel(Ann, "+1") >>),
                  ChatLog(<< Message(<< Dt(T3), Cite(<< Tel(Bob, "+2") >>) >>) >>) >>) >>,
      << Audio(<< Txt(<<"Missed call">>), TitleAnnToBob >>) >> }

\* messages in other places than directly under the chat log: wrapped in a
\* div, inside another message, before the chat log; img elements without a
\* src and below other elements of the message
Wrapped ==
    { << ChatLog(<< El("div", << >>,
                       << Message(<< Dt(T2), Cite(<< Tel(Bob, "+2") >>), Q(<<"yo">>) >>) >>),
                    Message(<< Dt(T1), Cite(<< Tel(Ann, "+1") >>), Q(<<"hi">>) >>) >>) >>,
      << ChatLog(<< Message(<< Dt(T1), Cite(<< Tel(Ann, "+1") >>), Q(<<"hi">>),
                               Message(<< Dt(T2), Cite(<< Tel(Bob, "+2") >>),
                                          Img(Pic1) >>) >>) >>) >>,
      << Message(<< Dt(T3), Cite(<< Tel(Bob, "+2") >>), Q(<<"yo">>) >>),
         ChatLog(<< Message(<< Dt(T1), Cite(<< Tel(Ann, "+1") >>), Q(<<"hi">>) >>) >>) >>,
      << ChatLog(<< Message(<< Dt(T1), Cite(<< Tel(Ann, "+1") >>),
                               El("img", << Attr("alt", <<"picture">>) >>, << >>),
                               El("div", << >>, << Img(Pic2) >>),
                               Img(Pic1) >>) >>) >> }

Documents ==
    {Document(head, << block >>) : head \in Heads, block \in ChatLogs \cup Audios}
    \cup {Document(head, body) :
            head \in {<< >>, << TitleAnnToBob >>},
            body \in SeqsUpTo(Blocks, MaxBody) \cup Nested \cup Wrapped}

\* ------------------------------------------------------------------------
\* the working directory
\* ------------------------------------------------------------------------
\* A directory is the sequence of its entries in the lexical order in which
\* filepath.Glob lists them; an entry is [name, content], content naming the
\* document an .html file holds ("unopenable": os.Open fails, "unreadable":
\* reading fails under html.Parse) or "bytes" for a media file.

\* the file names findMediaFile is tried on, in the order of Go's string
\* comparison ('-' sorts before '.')
LexOrder ==
    << <<"a", "-", "1", "-", "2", ".jpg">>,
       <<"a", "-", "1", ".html">>,
       <<"a", "-", "1", ".jpg">>,
       <<"a", ".jpg">>,
       <<"b", ".html">> >>

\* as if filepath.Glob listed the names in the order the directory gave them
unsortedStrings(names) == names

\* filepath.Glob sorts the names it has read from the directory
sortStrings(names) ==
    SelectSeq(LexOrder, LAMBDA n : \E k \in 1..Len(names) : names[k] = n)

\* filepath.Glob("*" + glob + "*") in the working directory, for a glob
\* without pattern characters: the names that contain glob, in order
globContaining(dir, glob) ==
    LET hits == SelectSeq(dir, LAMBDA e : Contains(e.name, glob))
    IN  [k \in 1..Len(hits) |-> hits[k].name]

\* findMediaFile's closure look: the first match that is not an .html file,
\* "" when there is none
look(dir, glob) ==
    LET matches == SelectSeq(globContaining(dir, glob),
                             LAMBDA m : ~HasSuffix(m, <<".html">>))
    IN  IF matches = << >> THEN << >> ELSE matches[1]

\* findMediaFile(relativePath): [err, path]
findMediaFile(dir, relativePath) ==
    LET parts == Split(relativePath, <<" ">>)
        last == parts[Len(parts)]
        first == look(dir, last)
        lastParts == Split(last, <<"-">>)
        shorter == Join(SubSeq(lastParts, 1, Len(lastParts) - 1), <<"-">>)
        second == look(dir, shorter)
    IN  IF first /= << >> THEN [err |-> FALSE, path |-> first]
        ELSE IF Len(lastParts) > 2 /\ second /= << >>
        THEN [err |-> FALSE, path |-> second]
        ELSE [err |-> TRUE, path |-> << >>]

\* findMediaFile when the directory hands out its names in the order names
findMediaFileIn(names, relativePath) ==
    LET sorted == sortStrings(names)
    IN  findMediaFile([k \in 1..Len(sorted) |-> [name |-> sorted[k], content |-> "bytes"]],
                      relativePath)

\* findMediaFile on its own: the names in the directory, the reference
\* string, and the result of each run so far
NoResolution == [entries |-> {}, ref |-> << >>, runs |-> << >>]

\* the reference strings findMediaFile is tried on: a last token of the form
\* name-N, one with two numeric segments, one with a last segment that is
\* not a number, one without "-", and one that only an .html file matches
References ==
    { <<"G", " ", "-", " ", "a", "-", "1">>,
      <<"G", " ", "-", " ", "a", "-", "1", "-", "2">>,
      <<"G", " ", "-", " ", "a", "-", "1", "-", "x">>,
      <<"a">>,
      <<"G", " ", "b">> }

\* the directories: at most MaxEntries of the names
EntrySets ==
    {S \in SUBSET {LexOrder[k] : k \in 1..Len(LexOrder)} : Cardinality(S) <= MaxEntries}

\* the orders in which a directory can hand out its names
Orders(S) ==
    {o \in [1..Cardinality(S) -> S] : \A x \in S : \E k \in 1..Cardinality(S) : o[k] = x}

\* filepath.Glob("*.html"): the input files, in directory order
htmlFiles(dir) == SelectSeq(dir, LAMBDA e : HasSuffix(e.name, <<".html">>))

\* the documents of the input files of the ingest loop
FileDoc(content) ==
    CASE content = "chat" ->
            Document(<< TitleAnnToBob >>,
                << ChatLog(<< Message(<< Dt(T1), Cite(<< Tel(Ann, "+1") >>), Q(<<"hi">>) >>),
                              Message(<< Dt(T2), Cite(<< Tel(Bob, "+1") >>),
                                         Q(<<"MMS">>), Img(Pic2) >>) >>) >>)
      [] content = "chat2" ->
            Document(<< >>,
                << ChatLog(<< Message(<< Dt(T3), Cite(<< Tel(Ann, "+1") >>),
                                         Img(Pic1), Img(Pic3) >>) >>) >>)
      [] content = "mms" ->
            Document(<< >>,
                << ChatLog(<< Message(<< Dt(T3), Cite(<< Tel(Ann, "+1") >>), Q(<<"hi">>),
                                         Img(Pic2), Img(Pic1) >>),
                              Message(<< Dt(T2), Cite(<< Tel(Bob, "+1") >>),
                                         Q(<<"yo">>) >>) >>) >>)
      [] content = "quarter" ->
            Document(<< >>,
                << ChatLog(<< Message(<< Dt(T3), Cite(<< Tel(Ann, "+1") >>), Q(<<"hi">>),
                                         Img(Pic2), Img(Pic1) >>),
                              Message(<< Dt(TQuarter), Cite(<< Tel(Bob, "+1") >>),
                                         Q(<<"yo">>) >>) >>) >>)
      [] content = "voicemail" ->
            Document(<< TitleAnnToBob >>,
                << Audio(<< Txt(<<"Voicemail", " ", "from">>),
                            Contributor(<< Tel(Ann, "+1"),
                                           El("span", Class("fn"), << Txt(Bob) >>) >>),
                            Published(T2), FullText(<<"call", " ", "me">>),
                            Duration(<<"(", "00:00:18", ")">>) >>) >>)
      [] content = "anonymous" ->
            Document(<< >>,
                << ChatLog(<< Message(<< Dt(T1), Cite(<< Tel(Ann, "+1") >>), Q(<<"hi">>) >>),
                              Message(<< Dt(T2), Q(<<"anonymous">>) >>) >>) >>)
      [] content = "nomarker" -> Document(<< TitleAnnToBob >>, << AudioNoMarker >>)
      [] content = "panics" ->
            Document(<< >>, << PlacedCallNoContributor, TitleAnnToBob >>)

HtmlContents ==
    {"chat", "chat2", "mms", "quarter", "voicemail", "anonymous", "nomarker", "panics",
     "unopenable", "unreadable"}

\* what parseFile gives for each input file that can be opened and read
parsedFile ==
    [content \in HtmlContents \ {"unopenable", "unreadable"} |->
        parseFile(FileDoc(content))]

\* the number of records parseFile logs for each such file
loggedFile ==
    [content \in HtmlContents \ {"unopenable", "unreadable"} |->
        parseFileLogged(FileDoc(content))]

Digits == <<"1", "2", "3", "4", "5", "6", "7", "8", "9">>
HtmlName(k) == <<"f", Digits[k], ".html">>

\* the media file next to the input files: Pic1 names it, Pic2 matches it
\* once its last "-" segment is dropped, nothing on disk matches Pic3
MediaFiles == << [name |-> Pic1 \o <<".jpg">>, content |-> "bytes"] >>

Directories ==
    { MediaFiles \o [k \in 1..Len(contents) |->
                        [name |-> HtmlName(k), content |-> contents[k]]] :
        contents \in SeqsUpTo(HtmlContents, MaxFiles) }

\* ------------------------------------------------------------------------
\* the SQLite database
\* ------------------------------------------------------------------------
\* every table is the sequence of its rows in insertion order; the id of a
\* row (INTEGER PRIMARY KEY AUTOINCREMENT, createTables) is its position
\* contact_seq is the row of sqlite_sequence for the contact table, the
\* largest id AUTOINCREMENT has handed out there.  In the other tables no
\* statement is ever ignored, so their sequence is their number of rows.
EmptyDB ==
    [conversation |-> << >>, contact |-> << >>, participant |-> << >>,
     message |-> << >>, image |-> << >>, media_file |-> << >>,
     contact_seq |-> 0]

NoTx == [open |-> FALSE, data |-> EmptyDB]

\* the locals of insertConversation
NoInsert ==
    [conv |-> ZeroConversation, convID |-> 0, contactIDs |-> {}, todo |-> {},
     mi |-> 0, ii |-> 0, msgID |-> 0]

\* INSERT INTO table: the new row gets the next id
Insert(d, table, row) ==
    [d EXCEPT ![table] = Append(@, [row EXCEPT !.id = Len(d[table]) + 1])]
LastInsertId(d, table) == Len(d[table])

\* as if the contact table had no UNIQUE constraint
InsertContactAlways(d, name, number) ==
    [d EXCEPT !.contact = Append(@, [id |-> d.contact_seq + 1, name |-> name,
                                     phone_number |-> number]),
              !.contact_seq = @ + 1]

\* INSERT OR IGNORE INTO contact (name, phone_number), UNIQUE(name, phone_number):
\* the id is taken from the AUTOINCREMENT sequence before the constraint is
\* tested, so an ignored statement uses one up as well
InsertOrIgnoreContact(d, name, number) ==
    IF \E k \in 1..Len(d.contact) :
            d.contact[k].name = name /\ d.contact[k].phone_number = number
    THEN [d EXCEPT !.contact_seq = @ + 1]
    ELSE [d EXCEPT !.contact = Append(@, [id |-> d.contact_seq + 1, name |-> name,
                                          phone_number |-> number]),
                   !.contact_seq = @ + 1]

\* SELECT id FROM contact WHERE name = ? AND phone_number = ?
SelectContactID(d, name, number) ==
    d.contact[CHOOSE k \in 1..Len(d.contact) :
        d.contact[k].name = name /\ d.contact[k].phone_number = number].id

\* the rows of contact with this id: JOIN contact ON contact.id = ...
contactsWithID(d, id) ==
    SelectSeq(d.contact, LAMBDA r : r.id = id)

\* as if the statements had run outside the transaction: the writes stay
AfterRollbackKeepsWrites(committed, t) == IF t.open THEN t.data ELSE committed

\* the committed database once insertConversation has returned without a
\* successful Commit: the deferred tx.Rollback() discards the writes of tx
AfterRollback(committed, t) == committed

\* no Reconciler query in progress
NoReconcile == [op |-> "idle"]

\* no viewer request in progress
NoRequest == [handler |-> "idle"]

\* ------------------------------------------------------------------------
\* state
\* ------------------------------------------------------------------------
VARIABLES
    doc,            \* parseFile: the tree html.Parse returned
    pos,            \* parseFile: the node f visits next, in pre-order
    conversation,   \* parseFile: the local variable conversation
    pstate,         \* parseFile: "walking", "returned" or "panicked"
    dir,            \* the working directory
    format,         \* main: the -format flag, "json" or "sqlite"
    fi,             \* main: the number of input files the loop has finished
    mpc,            \* main: where the program is
    stdout,         \* the Conversations outputJSON has printed
    log,            \* the records logged so far, each [file, msg]
    lastErr,        \* the latest message logged by insertConversation
    parsed,         \* main: what parseFile returned, per file, [file, conv]
    attempted,      \* main: the files the loop body was entered for, in order
    resolution,     \* findMediaFile alone: [entries, ref, runs], runs its results
    par,            \* parseFile in parallel: per call, its tree and its locals
    db,             \* the committed content of conversations.db
    tx,             \* insertConversation: the open transaction, if any
    ins,            \* insertConversation: its locals
    rec,            \* the Reconciler: the query in progress and what it has so far
    view            \* the viewer: the request in progress and what it has read

parseVars == <<doc, pos, conversation, pstate>>
mainVars == <<dir, rec, view, format, fi, mpc, stdout, log, lastErr, parsed, attempted, resolution, par,
              db, tx, ins>>
mainVarsButLog == <<dir, rec, view, format, fi, mpc, stdout, lastErr, parsed, attempted, resolution,
                    par, db, tx, ins>>
vars == <<doc, pos, conversation, pstate, dir, rec, view, format, fi, mpc, stdout, log, lastErr,
          parsed, attempted, resolution, par, db, tx, ins>>

\* ------------------------------------------------------------------------
\* parseFile as a walk, one step per call of its closure f
\* ------------------------------------------------------------------------
ParseInit ==
    /\ doc \in Documents
    /\ pos = 1
    /\ conversation = NewConversation
    /\ pstate = "walking"
    /\ dir = << >>
    /\ format = "json"
    /\ rec = NoReconcile
    /\ view = NoRequest
    /\ fi = 0
    /\ mpc = "idle"
    /\ stdout = << >>
    /\ log = << >>
    /\ lastErr = ""
    /\ parsed = << >>
    /\ attempted = << >>
    /\ resolution = NoResolution
    /\ par = << >>
    /\ db = EmptyDB
    /\ tx = NoTx
    /\ ins = NoInsert

\* f(n) on the next node, when none of its map writes panics
ParseVisit ==
    /\ pstate = "walking"
    /\ pos <= Len(doc)
    /\ ~parseFileVisit(doc, pos, conversation).panic
    /\ conversation' = parseFileVisit(doc, pos, conversation).conv
    /\ log' = LoggedTimes(log, << >>, "parse time err",
                          parseFileVisitLogged(doc, pos, conversation))
    /\ pos' = pos + 1
    /\ UNCHANGED <<doc, pstate>>
    /\ UNCHANGED mainVarsButLog

\* f(n) on the next node, when it writes to a nil Participants map
ParsePanic ==
    /\ pstate = "walking"
    /\ pos <= Len(doc)
    /\ parseFileVisit(doc, pos, conversation).panic
    /\ conversation' = parseFileVisit(doc, pos, conversation).conv
    /\ log' = LoggedTimes(log, << >>, "parse time err",
                          parseFileVisitLogged(doc, pos, conversation))
    /\ pstate' = "panicked"
    /\ UNCHANGED <<doc, pos>>
    /\ UNCHANGED mainVarsButLog

\* return conversation, nil
ParseReturn ==
    /\ pstate = "walking"
    /\ pos > Len(doc)
    /\ pstate' = "returned"
    /\ UNCHANGED <<doc, pos, conversation>>
    /\ UNCHANGED mainVars

ParseNext == ParseVisit \/ ParsePanic \/ ParseReturn

SpecParse == ParseInit /\ [][ParseNext]_vars

\* ------------------------------------------------------------------------
\* main: the ingest loop, with outputJSON and insertConversation
\* ------------------------------------------------------------------------
Init ==
    /\ dir \in Directories
    /\ format \in {"json", "sqlite"}
    /\ rec = NoReconcile
    /\ view = NoRequest
    /\ fi = 0
    /\ mpc = "loop"
    /\ stdout = << >>
    /\ log = << >>
    /\ lastErr = ""
    /\ parsed = << >>
    /\ attempted = << >>
    /\ resolution = NoResolution
    /\ par = << >>
    /\ db = EmptyDB
    /\ tx = NoTx
    /\ ins = NoInsert
    /\ doc = << >>
    /\ pos = 0
    /\ conversation = ZeroConversation
    /\ pstate = "idle"

files == htmlFiles(dir)
file == files[fi + 1]
Logged(msg) == Append(log, [file |-> file.name, msg |-> msg])

\* as if main did not test the type
hasTypeUnchecked(conv) == TRUE

\* main's test after parseFile: only a Conversation with a type is output
hasType(conv) == conv.Type /= ""

\* continue: the loop takes the next file
Continue ==
    /\ fi' = fi + 1
    /\ mpc' = "loop"
    /\ conversation' = ZeroConversation

\* os.Open fails: logged, continue
MainOpenError ==
    /\ mpc = "loop" /\ fi < Len(files)
    /\ file.content = "unopenable"
    /\ attempted' = Append(attempted, file.name)
    /\ log' = Logged("error opening file")
    /\ Continue
    /\ UNCHANGED <<parsed, par, resolution, dir, rec, view, format, stdout, lastErr, db, tx, ins, doc, pos, pstate>>

\* os.Open succeeds
MainOpen ==
    /\ mpc = "loop" /\ fi < Len(files)
    /\ file.content /= "unopenable"
    /\ attempted' = Append(attempted, file.name)
    /\ mpc' = "parse"
    /\ UNCHANGED <<parsed, par, resolution, dir, rec, view, format, fi, stdout, log, lastErr, db, tx, ins>>
    /\ UNCHANGED parseVars

\* parseFile returns the error of html.Parse: logged, continue
MainParseError ==
    /\ mpc = "parse"
    /\ file.content = "unreadable"
    /\ log' = Logged("error parsing file")
    /\ Continue
    /\ UNCHANGED <<parsed, attempted, par, resolution, dir, rec, view, format, stdout, lastErr, db, tx, ins, doc, pos, pstate>>

\* parseFile panics: nothing recovers, the program dies
MainPanic ==
    /\ mpc = "parse"
    /\ file.content /= "unreadable"
    /\ parsedFile[file.content].panic
    /\ log' = LoggedTimes(log, file.name, "parse time err", loggedFile[file.content])
    /\ mpc' = "crashed"
    /\ UNCHANGED <<parsed, attempted, par, resolution, dir, rec, view, format, fi, stdout, lastErr, db, tx, ins>>
    /\ UNCHANGED parseVars

\* conversation, err := parseFile(lgr, f, file) with err == nil
MainParse ==
    /\ mpc = "parse"
    /\ file.content /= "unreadable"
    /\ ~parsedFile[file.content].panic
    /\ conversation' = parsedFile[file.content].conv
    /\ parsed' = Append(parsed, [file |-> file.name, conv |-> conversation'])
    /\ log' = LoggedTimes(log, file.name, "parse time err", loggedFile[file.content])
    /\ mpc' = "parsed"
    /\ UNCHANGED <<attempted, par, resolution, dir, rec, view, format, fi, stdout, lastErr, db, tx, ins, doc, pos, pstate>>

\* conversation.Type == "": logged, continue
MainSkip ==
    /\ mpc = "parsed"
    /\ ~hasType(conversation)
    /\ log' = Logged("failed to parse file correctly")
    /\ Continue
    /\ UNCHANGED <<parsed, attempted, par, resolution, dir, rec, view, format, stdout, lastErr, db, tx, ins, doc, pos, pstate>>

\* output = outputJSON: the Conversation is marshalled and printed
MainOutputJSON ==
    /\ mpc = "parsed"
    /\ hasType(conversation)
    /\ format = "json"
    /\ stdout' = Append(stdout, [conversation EXCEPT !.SourceFile = file.name])
    /\ Continue
    /\ UNCHANGED <<parsed, attempted, par, resolution, dir, rec, view, format, log, lastErr, db, tx, ins, doc, pos, pstate>>

\* output = outputSQLite: insertConversation is entered
MainOutputSQLite ==
    /\ mpc = "parsed"
    /\ hasType(conversation)
    /\ format = "sqlite"
    /\ ins' = [NoInsert EXCEPT !.conv = [conversation EXCEPT !.SourceFile = file.name]]
    /\ mpc' = "begin"
    /\ UNCHANGED <<parsed, attempted, par, resolution, dir, rec, view, format, fi, stdout, log, lastErr, db, tx>>
    /\ UNCHANGED parseVars

\* the loop is over, main returns
MainDone ==
    /\ mpc = "loop" /\ fi = Len(files)
    /\ mpc' = "done"
    /\ UNCHANGED <<parsed, attempted, par, resolution, dir, rec, view, format, fi, stdout, log, lastErr, db, tx, ins>>
    /\ UNCHANGED parseVars

\* insertConversation logs msg and returns before a successful Commit; its
\* deferred tx.Rollback() runs.  log keeps that a failure was logged for the
\* file, lastErr the text of the latest one.
Return(msg) ==
    /\ log' = Logged("insertConversation failed")
    /\ lastErr' = msg
    /\ db' = AfterRollback(db, tx)
    /\ tx' = NoTx
    /\ ins' = NoInsert
    /\ Continue
    /\ UNCHANGED <<parsed, attempted, par, resolution, dir, rec, view, format, stdout, doc, pos, pstate>>

\* a step of insertConversation that goes on within the transaction
Step(pc, t, i) ==
    /\ mpc' = pc
    /\ tx' = t
    /\ ins' = i
    /\ UNCHANGED <<parsed, attempted, par, resolution, dir, rec, view, format, fi, stdout, log, lastErr, db>>
    /\ UNCHANGED parseVars

\* tx, err := db.Begin()
StoreBegin ==
    /\ mpc = "begin"
    /\ \/ Step("conversation", [open |-> TRUE, data |-> db], ins)
       \/ Return("Failed to begin transaction")

\* the conversation row: Prepare, Exec, LastInsertId
StoreConversation ==
    /\ mpc = "conversation"
    /\ \/ LET c == ins.conv
              d == Insert(tx.data, "conversation",
                     [id |-> 0, type |-> c.Type, timestamp |-> c.Timestamp,
                      duration |-> c.Duration, transcript |-> c.Transcript,
                      source_file |-> c.SourceFile])
          IN  Step("statements", [tx EXCEPT !.data = d],
                   [ins EXCEPT !.convID = LastInsertId(d, "conversation")])
       \/ \E msg \in {"Failed to prepare conversation statement",
                      "Failed to insert conversation",
                      "Failed to get last insert ID"} : Return(msg)

\* the statements for contacts and participants are prepared, contactIDs is
\* made, and the loop over conv.Participants is entered
StorePrepareParticipants ==
    /\ mpc = "statements"
    /\ \/ Step("participants", tx,
                [ins EXCEPT !.contactIDs = {},
                            !.todo = Keys(ins.conv.Participants)])
       \/ \E msg \in {"Failed to prepare contact statement",
                      "Failed to prepare participant statement"} : Return(msg)

\* one round of the loop over conv.Participants, which Go ranges over in
\* any order: the contact is inserted unless present, its id is read back
\* and remembered under the name, the participant row is inserted
StoreParticipant ==
    /\ mpc = "participants"
    /\ ins.todo /= {}
    /\ \/ \E name \in ins.todo :
            LET number == MapGet(ins.conv.Participants, name)
                d1 == InsertOrIgnoreContact(tx.data, name, number)
                contactID == SelectContactID(d1, name, number)
                d2 == Insert(d1, "participant",
                        [id |-> 0, conversation_id |-> ins.convID,
                         contact_id |-> contactID])
            IN  Step("participants", [tx EXCEPT !.data = d2],
                     [ins EXCEPT !.contactIDs = {e \in @ : e[1] /= name}
                                                  \cup {<<name, contactID>>},
                                 !.todo = @ \ {name}])
       \/ \E msg \in {"Failed to insert contact", "Failed to get contact ID",
                      "Failed to insert participant"} : Return(msg)

\* the loop over conv.Participants is over: the statements for messages,
\* images and media files are prepared
StorePrepare ==
    /\ mpc = "participants"
    /\ ins.todo = {}
    /\ \/ Step("messages", tx, [ins EXCEPT !.mi = 1])
       \/ \E msg \in {"Failed to prepare message statement",
                      "Failed to prepare image statement",
                      "Failed to prepare media file statement"} : Return(msg)

\* as if the lookup took the zero value for a sender that is not a key
lookupUnchecked(contactIDs, sender) ==
    IF \E e \in contactIDs : e[1] = sender
    THEN {e \in contactIDs : e[1] = sender}
    ELSE {<<sender, 0>>}

\* senderContactID, ok := contactIDs[msg.Sender]: the entry, if there is one
lookup(contactIDs, sender) == {e \in contactIDs : e[1] = sender}

\* one round of the loop over conv.Messages, up to its loop over the images
StoreMessage ==
    /\ mpc = "messages"
    /\ ins.mi <= Len(ins.conv.Messages)
    /\ LET msg == ins.conv.Messages[ins.mi]
           known == lookup(ins.contactIDs, msg.Sender)
       IN  IF known = {}
           THEN Return("Failed to find contact ID for sender")
           ELSE \/ LET senderContactID == (CHOOSE e \in known : TRUE)[2]
                       d == Insert(tx.data, "message",
                              [id |-> 0, conversation_id |-> ins.convID,
                               timestamp |-> msg.Timestamp,
                               sender_contact_id |-> senderContactID,
                               content |-> msg.Content])
                   IN  IF msg.Images = << >>
                       THEN Step("messages", [tx EXCEPT !.data = d],
                                 [ins EXCEPT !.mi = @ + 1])
                       ELSE Step("images", [tx EXCEPT !.data = d],
                                 [ins EXCEPT !.msgID = LastInsertId(d, "message"),
                                             !.ii = 1])
                \/ \E m \in {"Failed to insert message",
                             "Failed to get last insert ID for message"} : Return(m)

\* insertMediaFile(tx, stmt, imgID, imageURL) when its statement executes:
\* [err, data]; the file is looked up, read, and stored under the image
insertMediaFile(d, directory, imgID, imageURL) ==
    LET found == findMediaFile(directory, imageURL)
    IN  IF found.err THEN [err |-> TRUE, data |-> d]
        ELSE [err |-> FALSE,
              data |-> Insert(d, "media_file",
                         [id |-> 0, image_id |-> imgID, file_name |-> found.path,
                          content |-> <<"content of">> \o found.path])]

\* one round of the loop over msg.Images: the image row, then insertMediaFile
StoreImage ==
    /\ mpc = "images"
    /\ LET msg == ins.conv.Messages[ins.mi]
           img == msg.Images[ins.ii]
           d == Insert(tx.data, "image",
                  [id |-> 0, message_id |-> ins.msgID, image_url |-> img])
           media == insertMediaFile(d, dir, LastInsertId(d, "image"), img)
       IN  \/ /\ ~media.err
              /\ IF ins.ii < Len(msg.Images)
                 THEN Step("images", [tx EXCEPT !.data = media.data],
                           [ins EXCEPT !.ii = @ + 1])
                 ELSE Step("messages", [tx EXCEPT !.data = media.data],
                           [ins EXCEPT !.mi = @ + 1])
           \/ /\ media.err
              /\ Return("Failed to insert media file: failed to find media file")
           \/ \E m \in {"Failed to insert image",
                        "Failed to get last insert ID for image",
                        "Failed to insert media file: failed to read media file",
                        "Failed to insert media file: failed to insert media file"} :
                Return(m)

\* tx.Commit(): the writes of the transaction become the database, or the
\* failure is logged and nothing is written
StoreCommit ==
    /\ mpc = "messages"
    /\ ins.mi > Len(ins.conv.Messages)
    /\ \/ /\ db' = tx.data
          /\ tx' = NoTx
          /\ ins' = NoInsert
          /\ Continue
          /\ UNCHANGED <<parsed, attempted, par, resolution, dir, rec, view, format, stdout, log, lastErr, doc, pos, pstate>>
       \/ Return("Failed to commit transaction")

Next ==
    \/ MainOpenError
    \/ MainOpen
    \/ MainParseError
    \/ MainPanic
    \/ MainParse
    \/ MainSkip
    \/ MainOutputJSON
    \/ MainOutputSQLite
    \/ MainDone
    \/ StoreBegin
    \/ StoreConversation
    \/ StorePrepareParticipants
    \/ StoreParticipant
    \/ StorePrepare
    \/ StoreMessage
    \/ StoreImage
    \/ StoreCommit

Spec == Init /\ [][Next]_vars

\* ------------------------------------------------------------------------
\* findMediaFile on its own, run after run on one directory and reference
\* ------------------------------------------------------------------------
MediaInit ==
    /\ resolution \in [entries : EntrySets, ref : References, runs : {<< >>}]
    /\ doc = << >>
    /\ pos = 0
    /\ conversation = ZeroConversation
    /\ pstate = "idle"
    /\ dir = << >>
    /\ format = "sqlite"
    /\ rec = NoReconcile
    /\ view = NoRequest
    /\ fi = 0
    /\ mpc = "idle"
    /\ stdout = << >>
    /\ log = << >>
    /\ lastErr = ""
    /\ parsed = << >>
    /\ attempted = << >>
    /\ par = << >>
    /\ db = EmptyDB
    /\ tx = NoTx
    /\ ins = NoInsert

\* one run of findMediaFile(relativePath); the directory hands out its names
\* in any order
Resolve ==
    /\ resolution.ref /= << >>
    /\ Len(resolution.runs) < MaxRuns
    /\ \E o \in Orders(resolution.entries) :
          resolution' = [resolution EXCEPT
                            !.runs = Append(@, findMediaFileIn(o, resolution.ref))]
    /\ UNCHANGED <<doc, pos, conversation, pstate, dir, rec, view, format, fi, mpc, stdout, log,
                   lastErr, parsed, attempted, par, db, tx, ins>>

MediaNext == Resolve

SpecMedia == MediaInit /\ [][MediaNext]_vars

\* ------------------------------------------------------------------------
\* parseFile called in parallel by goroutines of one process, each on its
\* own document; a step is one call of a closure f, steps interleave freely
\* ------------------------------------------------------------------------
\* the documents extracted in parallel: a chat, a call record, and a call
\* record on which parseFile panics
ParDocuments ==
    { Document(<< >>, << ChatLog(<< Message(<< Dt(T2), Cite(<< Tel(Ann, "+1") >>) >>) >>) >>),
      Document(<< >>, << MissedCall >>),
      Document(<< >>, << Audio(<< Txt(<<"Missed call">>), TitleAnnToBob >>) >>) }

\* as if conversation were one variable that all the calls share
sharedConversation(p, t) == p[1].conversation

\* conversation is a local variable of parseFile: each call has its own
localConversation(p, t) == p[t].conversation

ParInit ==
    /\ par \in [1..MaxTraversals ->
                 {[doc |-> d, pos |-> 1, conversation |-> NewConversation,
                   pstate |-> "walking", alone |-> parseFile(d)] : d \in ParDocuments}]
    /\ resolution = NoResolution
    /\ doc = << >>
    /\ pos = 0
    /\ conversation = ZeroConversation
    /\ pstate = "idle"
    /\ dir = << >>
    /\ format = "json"
    /\ rec = NoReconcile
    /\ view = NoRequest
    /\ fi = 0
    /\ mpc = "idle"
    /\ stdout = << >>
    /\ log = << >>
    /\ lastErr = ""
    /\ parsed = << >>
    /\ attempted = << >>
    /\ db = EmptyDB
    /\ tx = NoTx
    /\ ins = NoInsert

\* a panic in one goroutine ends the process
Alive == \A t \in 1..Len(par) : par[t].pstate /= "panicked"

ParUnchanged ==
    UNCHANGED <<doc, pos, conversation, pstate, dir, rec, view, format, fi, mpc, stdout,
                lastErr, parsed, attempted, resolution, db, tx, ins>>

\* call t: f(n) on its next node, when none of its map writes panics
ParallelVisit ==
    /\ Alive
    /\ \E t \in 1..Len(par) :
          LET st == parseFileVisit(par[t].doc, par[t].pos, localConversation(par, t))
          IN  /\ par[t].pstate = "walking"
              /\ par[t].pos <= Len(par[t].doc)
              /\ ~st.panic
              /\ par' = [par EXCEPT ![t].conversation = st.conv, ![t].pos = @ + 1]
              /\ log' = LoggedTimes(log, << >>, "parse time err",
                            parseFileVisitLogged(par[t].doc, par[t].pos,
                                                 localConversation(par, t)))
    /\ ParUnchanged

\* call t: f(n) writes to a nil Participants map
ParallelPanic ==
    /\ Alive
    /\ \E t \in 1..Len(par) :
          LET st == parseFileVisit(par[t].doc, par[t].pos, localConversation(par, t))
          IN  /\ par[t].pstate = "walking"
              /\ par[t].pos <= Len(par[t].doc)
              /\ st.panic
              /\ par' = [par EXCEPT ![t].conversation = st.conv,
                                    ![t].pstate = "panicked"]
              /\ log' = LoggedTimes(log, << >>, "parse time err",
                            parseFileVisitLogged(par[t].doc, par[t].pos,
                                                 localConversation(par, t)))
    /\ ParUnchanged

\* call t: return conversation, nil
ParallelReturn ==
    /\ Alive
    /\ \E t \in 1..Len(par) :
          /\ par[t].pstate = "walking"
          /\ par[t].pos > Len(par[t].doc)
          /\ par' = [par EXCEPT ![t].pstate = "returned",
                                ![t].conversation = localConversation(par, t)]
          /\ log' = log
    /\ ParUnchanged

ParNext == ParallelVisit \/ ParallelPanic \/ ParallelReturn

SpecParallel == ParInit /\ [][ParNext]_vars

\* ------------------------------------------------------------------------
\* properties of the extractor
\* ------------------------------------------------------------------------
\* the marker divs of a document, in the order the walk meets them
IsDivOfClass(n, c) ==
    n.Type = ElementNode /\ n.Data = "div" /\ HasAttr(n, "class", <<c>>)
ChatMarkers(d) == {i \in 1..Len(d) : IsDivOfClass(d[i], "hChatLog hfeed")}
AudioMarkers(d) == {i \in 1..Len(d) : IsDivOfClass(d[i], "haudio")}
TitleNodes(d) == {i \in 1..Len(d) : d[i].Type = ElementNode /\ d[i].Data = "title"}
Max(S) == CHOOSE x \in S : \A y \in S : y <= x
Min(S) == CHOOSE x \in S : \A y \in S : x <= y
LastMarker(d) == Max(ChatMarkers(d) \cup AudioMarkers(d))
CallTypes == {"voicemail", "missed_call", "received_call", "placed_call"}

\* the names a title element supplies
TitleNames(d) ==
    UNION { LET parts == Split(ReplaceAll(extractTitle(d, i), "\n", " "),
                               <<" ", "to", " ">>)
            IN  IF Len(parts) = 2
                THEN {TrimSpace(parts[1]), TrimSpace(parts[2])} ELSE {}
            : i \in TitleNodes(d) }

\* C1: parseFile never panics: on every document tree the walk ends by
\* returning a Conversation.
ParseNeverPanics == pstate /= "panicked"

\* C5: in every chat Conversation that parseFile returns, the sender of every
\* Message is a key of the Participants map.
SenderIsParticipant ==
    (pstate = "returned" /\ conversation.Type = "chat")
    => \A k \in 1..Len(conversation.Messages) :
            HasKey(conversation.Participants, conversation.Messages[k].Sender)

\* C6: every Message of a returned Conversation has a non-empty sender.
SenderNonEmpty ==
    pstate = "returned"
    => \A k \in 1..Len(conversation.Messages) :
            conversation.Messages[k].Sender /= << >>

\* C7: when a document holds both a chat-log div and an audio div, the
\* returned Conversation is the one built from the marker visited last, and
\* no field extracted from the earlier marker survives: after a last audio
\* div the fields are those parseCallOrVoicemail gives for it; after a last
\* chat-log div the type is chat, the messages are those of that div, the
\* timestamp is that of its first message, duration and transcript are empty
\* and every participant comes from that div or from a title.
LastMarkerWins ==
    (pstate = "returned" /\ ChatMarkers(doc) /= {} /\ AudioMarkers(doc) /= {})
    => LET last == LastMarker(doc)
           call == parseCallOrVoicemail(doc, last)
           messages == parseMessages(doc, last)
       IN  IF last \in AudioMarkers(doc)
           THEN /\ conversation.Type = call.Type
                /\ conversation.Timestamp = call.Timestamp
                /\ conversation.Duration = call.Duration
                /\ conversation.Transcript = call.Transcript
                /\ conversation.Messages = << >>
                /\ Keys(conversation.Participants)
                     \subseteq Keys(call.Participants) \cup TitleNames(doc)
           ELSE /\ conversation.Type = "chat"
                /\ conversation.Messages = messages
                /\ conversation.Timestamp =
                     (IF messages = << >> THEN ZeroTime ELSE messages[1].Timestamp)
                /\ conversation.Duration = << >>
                /\ conversation.Transcript = << >>
                /\ Keys(conversation.Participants)
                     \subseteq Keys(parseParticipants(doc, last)) \cup TitleNames(doc)

\* C8: the populated fields of a returned Conversation are determined by its
\* type: a chat has no duration and no transcript, a call or voicemail has no
\* messages, and only a voicemail has a transcript.
FieldsByType ==
    pstate = "returned"
    => /\ conversation.Type = "chat"
            => conversation.Duration = << >> /\ conversation.Transcript = << >>
       /\ conversation.Type \in CallTypes => conversation.Messages = << >>
       /\ conversation.Transcript /= << >> => conversation.Type = "voicemail"

\* the text nodes of a call record that contain one of the four markers
MarkedTexts(d, i) ==
    {j \in i..SubtreeEnd(d, i) :
        d[j].Type = TextNode /\ classifyText(TrimSpace(d[j].Data)) /= ""}

\* C9: the type of a call record is fixed by its first text node, in
\* depth-first order, that contains a marker; later text nodes containing
\* another marker do not change it.
FirstMarkerWins ==
    (pstate = "returned" /\ ChatMarkers(doc) = {} /\ Cardinality(AudioMarkers(doc)) = 1)
    => LET a == LastMarker(doc)
       IN  conversation.Type =
              (IF MarkedTexts(doc, a) = {} THEN ""
               ELSE classifyText(TrimSpace(doc[Min(MarkedTexts(doc, a))].Data)))

\* C10: the timestamp of a returned chat Conversation with messages, each
\* with a timestamp that was read, is the minimum of its messages'
\* timestamps, whatever order the messages appear in.
TimestampIsEarliest ==
    (/\ pstate = "returned" /\ conversation.Type = "chat"
     /\ conversation.Messages /= << >>
     /\ \A k \in 1..Len(conversation.Messages) :
            conversation.Messages[k].Timestamp /= ZeroTime)
    => conversation.Timestamp.unix =
          Min({conversation.Messages[k].Timestamp.unix :
                 k \in 1..Len(conversation.Messages)})

\* the nodes of set S in document order
InOrder(S) == SelectSeq([i \in 1..Max(S \cup {0}) |-> i], LAMBDA i : i \in S)

\* the message nodes under node c: c itself or a descendant, a div of class
\* message
MessageNodesUnder(d, c) ==
    {i \in c..SubtreeEnd(d, c) : IsDivOfClass(d[i], "message")}

\* C11: the messages of a returned chat Conversation are, one for one and
\* in document order, the Messages built from the message nodes under the
\* chat log div: none is skipped, none is reported twice.
OneMessagePerNode ==
    (pstate = "returned" /\ conversation.Type = "chat")
    => LET nodes == InOrder(MessageNodesUnder(doc, Max(ChatMarkers(doc))))
       IN  /\ Len(conversation.Messages) = Len(nodes)
           /\ \A k \in 1..Len(nodes) :
                  conversation.Messages[k] = parseMessage(doc, nodes[k])

\* C11 witness: a chat log whose message nodes lie at different depths,
\* the deeper one first, has been extracted into two messages.
WrappedMessagesReturned ==
    /\ pstate = "returned" /\ conversation.Type = "chat"
    /\ Len(conversation.Messages) = 2
    /\ LET nodes == InOrder(MessageNodesUnder(doc, Max(ChatMarkers(doc))))
       IN  /\ Len(nodes) = 2
           /\ doc[nodes[1]].depth > doc[nodes[2]].depth
           /\ conversation.Messages[1].Timestamp /= conversation.Messages[2].Timestamp

\* the img elements with a src attribute under node m, and the src of one
ImgNodesUnder(d, m) ==
    {i \in m..SubtreeEnd(d, m) :
        /\ d[i].Type = ElementNode /\ d[i].Data = "img"
        /\ \E k \in 1..Len(d[i].Attr) : d[i].Attr[k].Key = "src"}
SrcOf(n) == n.Attr[Min({k \in 1..Len(n.Attr) : n.Attr[k].Key = "src"})].Val

\* C12: in a returned chat Conversation, the images of each Message are the
\* src values of the img elements with a src under its message node, one
\* entry per element, in document order; without such an element the list
\* is empty.
OneImagePerImg ==
    (pstate = "returned" /\ conversation.Type = "chat")
    => LET nodes == InOrder(MessageNodesUnder(doc, Max(ChatMarkers(doc))))
       IN  \A k \in 1..Len(conversation.Messages) :
              LET imgs == InOrder(ImgNodesUnder(doc, nodes[k]))
              IN  conversation.Messages[k].Images =
                     [j \in 1..Len(imgs) |-> SrcOf(doc[imgs[j]])]

\* C12 witness: a message node with an img without src and two img elements
\* with a src, at different depths, has given a Message with two images in
\* document order; another returned Message has none.
TwoImagesReturned ==
    /\ pstate = "returned" /\ conversation.Type = "chat"
    /\ Len(conversation.Messages) = 1
    /\ conversation.Messages[1].Images = << Pic2, Pic1 >>
    /\ \E i \in 1..Len(doc) :
          doc[i].Type = ElementNode /\ doc[i].Data = "img" /\ doc[i].Attr /= << >>
          /\ \A k \in 1..Len(doc[i].Attr) : doc[i].Attr[k].Key /= "src"

\* the ancestors of node i that carry a tel: link, and the number the
\* nearest of them gives ("" without any)
TelAncestors(d, i) ==
    {j \in 1..(i - 1) :
        /\ SubtreeEnd(d, j) >= i
        /\ \E k \in 1..Len(d[j].Attr) :
              d[j].Attr[k].Key = "href" /\ HasPrefix(d[j].Attr[k].Val, <<"tel:">>)}
NearestTel(d, i) ==
    IF TelAncestors(d, i) = {} THEN << >>
    ELSE extractPhoneNumber(d, Max(TelAncestors(d, i)))

\* the node whose subtree supplied the participants last: the last chat log,
\* or the last contributor block of the last call record (0 without one)
ParticipantsBlock(d) ==
    IF LastMarker(d) \in ChatMarkers(d) THEN LastMarker(d)
    ELSE Max({0} \cup {i \in LastMarker(d)..SubtreeEnd(d, LastMarker(d)) :
                          IsDivOfClass(d[i], "contributor vcard")})
FnNodesUnder(d, c) ==
    IF c = 0 THEN {}
    ELSE {i \in c..SubtreeEnd(d, c) :
            d[i].Type = ElementNode /\ HasAttr(d[i], "class", <<"fn">>)}

\* C13: the phone number recorded for a participant is the number of the
\* tel: link of the nearest ancestor of its fn node that has one, at any
\* depth, and is empty only when no ancestor has one.
NumberFromNearestAncestor ==
    (pstate = "returned" /\ ChatMarkers(doc) \cup AudioMarkers(doc) /= {})
    => LET fns == FnNodesUnder(doc, ParticipantsBlock(doc))
       IN  \A i \in fns :
              \E j \in fns :
                 /\ extractText(doc, j) = extractText(doc, i)
                 /\ <<extractText(doc, i), NearestTel(doc, j)>>
                        \in conversation.Participants.kv

\* the document names its participants nowhere but in a title that comes
\* before its chat log or call record
OnlyTitleNames(d) ==
    /\ ChatMarkers(d) \cup AudioMarkers(d) /= {}
    /\ TitleNames(d) /= {}
    /\ \A i \in TitleNodes(d) : i < Min(ChatMarkers(d) \cup AudioMarkers(d))
    /\ \A i \in 1..Len(d) : ~(d[i].Type = ElementNode /\ HasAttr(d[i], "class", <<"fn">>))

\* C14: title fallback: when the title is "X to Y" and the chat log or call
\* record of the document has no contributor of its own, the participants
\* of the returned Conversation contain X and Y with empty phone numbers.
TitleFallback ==
    (pstate = "returned" /\ OnlyTitleNames(doc))
    => \A name \in TitleNames(doc) :
          <<name, << >> >> \in conversation.Participants.kv

\* a published or dt node whose title is not RFC 3339
IsStamp(n, c) == n.Type = ElementNode /\ n.Data = "abbr" /\ HasAttr(n, "class", <<c>>)
BadStamp(n) ==
    /\ IsStamp(n, "published") \/ IsStamp(n, "dt")
    /\ \E k \in 1..Len(n.Attr) : n.Attr[k].Key = "title" /\ timeParse(n.Attr[k].Val).err

\* the document with every such title replaced by a valid timestamp
Repaired(d) ==
    [i \in 1..Len(d) |->
        IF BadStamp(d[i])
        THEN [d[i] EXCEPT !.Attr =
                [k \in 1..Len(@) |-> IF @[k].Key = "title" THEN Attr("title", T1)
                                      ELSE @[k]]]
        ELSE d[i]]

\* a Conversation without its timestamps
NoStamps(c) ==
    [c EXCEPT !.Timestamp = ZeroTime,
              !.Messages = [k \in 1..Len(@) |-> [@[k] EXCEPT !.Timestamp = ZeroTime]]]

\* the published nodes and the dt nodes under a node
StampsUnder(d, c, class) == {i \in c..SubtreeEnd(d, c) : IsStamp(d[i], class)}

\* C15: a timestamp that is not RFC 3339 is recovered locally: the
\* extraction returns as it does for the document with valid timestamps, each
\* field other than a timestamp is the same, the timestamp of a message
\* whose dt is not RFC 3339 and of a call record whose published is not RFC
\* 3339 is the zero time, and every other message keeps its timestamp.
BadStampIsLocal ==
    pstate = "returned"
    => LET good == parseFile(Repaired(doc))
       IN  /\ ~good.panic
           /\ NoStamps(conversation) = NoStamps(good.conv)
           /\ conversation.Type = "chat"
              => LET nodes == InOrder(MessageNodesUnder(doc, Max(ChatMarkers(doc))))
                 IN  \A k \in 1..Len(conversation.Messages) :
                        LET dts == StampsUnder(doc, nodes[k], "dt")
                        IN  conversation.Messages[k].Timestamp =
                               IF dts /= {} /\ BadStamp(doc[Max(dts)]) THEN ZeroTime
                               ELSE good.conv.Messages[k].Timestamp
           /\ conversation.Type \in CallTypes
              => LET ps == StampsUnder(doc, Max(AudioMarkers(doc)), "published")
                 IN  conversation.Timestamp =
                        IF \A i \in ps : BadStamp(doc[i]) THEN ZeroTime
                        ELSE good.conv.Timestamp

\* C15 witness: a call record whose published title is not RFC 3339 has been
\* returned with the zero time and with its type, participant and duration.
BadPublishedReturned ==
    /\ pstate = "returned"
    /\ \E i \in 1..Len(doc) : IsStamp(doc[i], "published") /\ BadStamp(doc[i])
    /\ conversation.Type = "received_call"
    /\ conversation.Timestamp = ZeroTime
    /\ conversation.Duration = <<"00:02:00">>
    /\ conversation.Participants.kv /= {}

\* ------------------------------------------------------------------------
\* properties of the ingest loop and of the storage
\* ------------------------------------------------------------------------
\* the rows of a table that satisfy a test, in insertion order
Rows(d, table, Test(_)) == SelectSeq(d[table], Test)

\* the file of parsed[i] has had its turn in the loop
Finished(i) == i < Len(parsed) \/ mpc \in {"loop", "done"}

\* the Conversation handed to the output function for the file named name
GivenFor(name) ==
    LET i == CHOOSE i \in 1..Len(parsed) : parsed[i].file = name
    IN  [parsed[i].conv EXCEPT !.SourceFile = name]

\* C2: a document whose extraction ends with an empty type is never passed
\* to the output function: no printed Conversation and no conversation row,
\* committed or being written, has an empty type or names such a file; the
\* skip is logged under the file's name; and the loop goes on, so that main
\* is done only when every file of the listing has had its turn.
EmptyTypeIsSkipped ==
    /\ \A k \in 1..Len(stdout) : stdout[k].Type /= ""
    /\ \A k \in 1..Len(db.conversation) : db.conversation[k].type /= ""
    /\ \A k \in 1..Len(tx.data.conversation) : tx.data.conversation[k].type /= ""
    /\ \A i \in 1..Len(parsed) :
        (parsed[i].conv.Type = "" /\ Finished(i))
        => /\ \E j \in 1..Len(log) :
                log[j] = [file |-> parsed[i].file,
                          msg |-> "failed to parse file correctly"]
           /\ \A j \in 1..Len(stdout) : stdout[j].SourceFile /= parsed[i].file
           /\ \A j \in 1..Len(db.conversation) :
                db.conversation[j].source_file /= parsed[i].file
    /\ mpc = "done" => fi = Len(files)

\* C2 witness: the first file was skipped for its empty type and the second
\* file has been output.
SkippedThenOutput ==
    /\ fi = 2 /\ Len(parsed) = 2
    /\ parsed[1].file = files[1].name /\ parsed[1].conv.Type = ""
    /\ \/ \E i \in 1..Len(stdout) : stdout[i].SourceFile = files[2].name
       \/ \E i \in 1..Len(db.conversation) :
            db.conversation[i].source_file = files[2].name

\* the rows of one conversation in database d
ParticipantsOf(d, id) == Rows(d, "participant", LAMBDA r : r.conversation_id = id)
MessagesOf(d, id) == Rows(d, "message", LAMBDA r : r.conversation_id = id)
ImagesOf(d, id) == Rows(d, "image", LAMBDA r : r.message_id = id)
MediaOf(d, id) == Rows(d, "media_file", LAMBDA r : r.image_id = id)
Ids(rows) == {rows[k].id : k \in 1..Len(rows)}

\* database d holds the conversation row r with all the participants,
\* messages and image references of Conversation c
HoldsRows(d, r, c) ==
    /\ r.type = c.Type /\ r.timestamp = c.Timestamp
    /\ r.duration = c.Duration /\ r.transcript = c.Transcript
    /\ LET ps == ParticipantsOf(d, r.id)
       IN  /\ Len(ps) = Cardinality(c.Participants.kv)
           /\ \A k \in 1..Len(ps) : Len(contactsWithID(d, ps[k].contact_id)) = 1
           /\ {<<contactsWithID(d, ps[k].contact_id)[1].name,
                 contactsWithID(d, ps[k].contact_id)[1].phone_number>> : k \in 1..Len(ps)}
              = c.Participants.kv
    /\ LET ms == MessagesOf(d, r.id)
       IN  /\ Len(ms) = Len(c.Messages)
           /\ \A k \in 1..Len(ms) :
                /\ ms[k].timestamp = c.Messages[k].Timestamp
                /\ ms[k].content = c.Messages[k].Content
                /\ Len(contactsWithID(d, ms[k].sender_contact_id)) = 1
                /\ contactsWithID(d, ms[k].sender_contact_id)[1].name = c.Messages[k].Sender
                /\ LET is == ImagesOf(d, ms[k].id)
                   IN  [i \in 1..Len(is) |-> is[i].image_url] = c.Messages[k].Images

\* database d holds a media_file row for every image reference of row r
HoldsMedia(d, r) ==
    \A k \in 1..Len(d.message) :
        d.message[k].conversation_id = r.id
        => \A i \in 1..Len(d.image) :
              d.image[i].message_id = d.message[k].id
              => Len(MediaOf(d, d.image[i].id)) = 1

\* no row of database d belongs to a conversation that d does not hold
NoOrphans(d) ==
    /\ \A k \in 1..Len(d.participant) :
          d.participant[k].conversation_id \in Ids(d.conversation)
    /\ \A k \in 1..Len(d.message) :
          d.message[k].conversation_id \in Ids(d.conversation)
    /\ \A k \in 1..Len(d.image) : d.image[k].message_id \in Ids(d.message)
    /\ \A k \in 1..Len(d.media_file) : d.media_file[k].image_id \in Ids(d.image)

\* C3: storage is all-or-nothing per conversation: whatever steps failed,
\* the database holds, for every conversation, its row with all of its
\* participant, message, image and media_file rows, or none of its rows.
AllOrNothing ==
    /\ NoOrphans(db)
    /\ \A k \in 1..Len(db.conversation) :
          LET r == db.conversation[k]
          IN  HoldsRows(db, r, GivenFor(r.source_file)) /\ HoldsMedia(db, r)

\* C3 witness: the first conversation is stored with its messages; the
\* second one failed after its conversation, participant and message rows
\* were written, and the database holds none of them.
RolledBackAfterWrites ==
    /\ fi = 2 /\ mpc = "loop"
    /\ lastErr \in {"Failed to insert image",
                    "Failed to insert media file: failed to find media file"}
    /\ log /= << >> /\ log[Len(log)].file = files[2].name
    /\ Len(db.conversation) = 1
    /\ db.conversation[1].source_file = files[1].name
    /\ Len(db.message) = 2 /\ Len(db.media_file) = 1

\* C4: a failed attachment resolution is non-fatal: when insertConversation
\* has found no file on disk for an image reference, the conversation row,
\* its participants, its messages and its image reference rows are stored.
MediaFailureIsNotFatal ==
    (/\ mpc = "loop" /\ fi > 0
     /\ log /= << >>
     /\ log[Len(log)] = [file |-> files[fi].name, msg |-> "insertConversation failed"]
     /\ lastErr = "Failed to insert media file: failed to find media file")
    => \E k \in 1..Len(db.conversation) :
          /\ db.conversation[k].source_file = files[fi].name
          /\ HoldsRows(db, db.conversation[k], GivenFor(files[fi].name))

\* C16: the ingest loop attempts every file of the listing exactly once, in
\* listing order: the files attempted so far are the first files of the
\* listing, each once, and the run has not ended, whatever failed, before
\* every file of the listing was attempted.
EveryFileAttemptedOnce ==
    /\ Len(attempted) <= Len(files)
    /\ attempted = [k \in 1..Len(attempted) |-> files[k].name]
    /\ mpc \in {"done", "crashed"} => Len(attempted) = Len(files)

\* the (name, phone number) pairs of the contact rows of database d
ContactPairs(d) ==
    {<<d.contact[k].name, d.contact[k].phone_number>> : k \in 1..Len(d.contact)}

\* no two contact rows of database d hold the same pair or the same id
OneRowPerPair(d) ==
    \A k, l \in 1..Len(d.contact) :
        k /= l => /\ d.contact[k].id /= d.contact[l].id
                  /\ <<d.contact[k].name, d.contact[k].phone_number>>
                        /= <<d.contact[l].name, d.contact[l].phone_number>>

\* C17: contact identity is the pair (name, phone number): the contact
\* table, committed or being written, never holds two rows for one pair or
\* one id for two rows, and the committed table holds exactly the pairs of
\* the participants of the stored conversations, a pair with the empty
\* number being a pair like any other.
ContactIsNameAndNumber ==
    /\ OneRowPerPair(db)
    /\ OneRowPerPair(tx.data)
    /\ ContactPairs(db) =
          UNION {GivenFor(db.conversation[k].source_file).Participants.kv :
                    k \in 1..Len(db.conversation)}

\* C17 witness: two conversations are stored whose participants share one
\* pair and hold one name with two numbers, one of them empty, and one
\* number with two names: four participant rows, three contact rows.
SharedAndDistinctContacts ==
    /\ Len(db.conversation) = 2
    /\ Len(db.participant) = 4
    /\ ContactPairs(db) = {<<Ann, <<"+1">> >>, <<Bob, <<"+1">> >>, <<Bob, << >> >>}
    /\ Len(db.contact) = 3

\* ------------------------------------------------------------------------
\* properties of findMediaFile
\* ------------------------------------------------------------------------
\* the names of set S that contain token and do not end in .html
Candidates(S, token) ==
    {n \in S : Contains(n, token) /\ ~HasSuffix(n, <<".html">>)}

NumericTokens == {"0", "1", "2", "3", "4", "5", "6", "7", "8", "9"}

\* token ends in "-N" with N a number; token without that suffix
HasNumericSuffix(token) ==
    /\ Len(token) >= 3
    /\ token[Len(token) - 1] = "-"
    /\ token[Len(token)] \in NumericTokens
WithoutSuffix(token) == SubSeq(token, 1, Len(token) - 2)

\* the last token of a reference string
LastToken(ref) == Split(ref, <<" ">>)[Len(Split(ref, <<" ">>))]

\* the stated strategy: the files that may be chosen for a reference in a
\* directory, none when resolution fails
Resolvable(S, ref) ==
    IF Candidates(S, LastToken(ref)) /= {} THEN Candidates(S, LastToken(ref))
    ELSE IF HasNumericSuffix(LastToken(ref))
    THEN Candidates(S, WithoutSuffix(LastToken(ref)))
    ELSE {}

\* C18: every run of findMediaFile follows the stated strategy: it fails
\* exactly when neither the last token of the reference nor, for a token
\* that ends in a numeric "-N", the token without that suffix is contained
\* in the name of a file that is not an .html file, and otherwise it
\* chooses a file found by the first of the two lookups that finds one.
FollowsStatedStrategy ==
    \A k \in 1..Len(resolution.runs) :
        LET run == resolution.runs[k]
            ok == Resolvable(resolution.entries, resolution.ref)
        IN  IF ok = {} THEN run.err
            ELSE ~run.err /\ run.path \in ok

\* C19: attachment resolution is deterministic: two runs of findMediaFile
\* on the same reference and the same directory, whatever the order in
\* which the directory hands out its names, both fail or both choose the
\* same file.
ResolutionIsDeterministic ==
    \A k, l \in 1..Len(resolution.runs) : resolution.runs[k] = resolution.runs[l]

\* C19 witness: two runs on a directory with several files that match the
\* reference have chosen a file.
TwoRunsAmongSeveral ==
    /\ Len(resolution.runs) = 2
    /\ ~resolution.runs[1].err /\ ~resolution.runs[2].err
    /\ Cardinality(Candidates(resolution.entries, LastToken(resolution.ref))) >= 2

\* ------------------------------------------------------------------------
\* properties of parallel extraction
\* ------------------------------------------------------------------------
\* C20: extraction needs no coordination: under every interleaving of the
\* traversals, each call of parseFile that returns gives the Conversation
\* that the extraction of its document alone gives.
ParallelAsAlone ==
    \A t \in 1..Len(par) :
        par[t].pstate = "returned"
        => ~par[t].alone.panic /\ par[t].conversation = par[t].alone.conv

\* C20 witness: the first call has returned a chat while the second call,
\* on a call record, is in the middle of its traversal and has already built
\* its Conversation.
ReturnedWhileOtherWalks ==
    /\ Len(par) >= 2
    /\ par[1].pstate = "returned" /\ par[1].conversation.Type = "chat"
    /\ par[2].pstate = "walking" /\ par[2].pos <= Len(par[2].doc)
    /\ par[2].conversation.Type = "missed_call"

\* ------------------------------------------------------------------------
\* the Reconciler: Groups over the persisted conversations
\* ------------------------------------------------------------------------
\* the most Conversations a persisted database holds
MaxConvs == 3

\* ORDER BY timestamp ASC or DESC: the column holds the texts the driver
\* stored, which SQLite compares as texts; rows with equal texts stay in
\* stored order
orderByTimestamp(s, direction) ==
    LET n == Len(s)
        text(r) == timeString(r.timestamp)
        before(j, k) == IF direction = "ASC" THEN textLess(text(s[j]), text(s[k]))
                        ELSE textLess(text(s[k]), text(s[j]))
        first(j, k) == before(j, k) \/ (~before(k, j) /\ j < k)
        rank(k) == Cardinality({j \in 1..n : j /= k /\ first(j, k)}) + 1
    IN  [p \in 1..n |-> s[CHOOSE k \in 1..n : rank(k) = p]]

\* the rows ordered by a column of numbers, ascending or descending: rows
\* with equal values stay in stored order
OrderBy(s, column, direction) ==
    LET n == Len(s)
        value(r) == r[column]
        before(j, k) == IF direction = "ASC" THEN value(s[j]) < value(s[k])
                        ELSE value(s[j]) > value(s[k])
        first(j, k) == before(j, k) \/ (~before(k, j) /\ j < k)
        rank(k) == Cardinality({j \in 1..n : j /= k /\ first(j, k)}) + 1
    IN  [p \in 1..n |-> s[CHOOSE k \in 1..n : rank(k) = p]]

\* the ids in ascending order
sortInts(ids) ==
    LET n == Len(ids)
        first(j, k) == ids[j] < ids[k] \/ (ids[j] = ids[k] /\ j < k)
        rank(k) == Cardinality({j \in 1..n : j /= k /\ first(j, k)}) + 1
    IN  [p \in 1..n |-> ids[CHOOSE k \in 1..n : rank(k) = p]]

\* Conversations as insertConversation is given them: the participants as
\* pairs of name and number in the order the range over the map takes them,
\* one pair a name, and the messages with the names of their senders
Stored(type, timestamp, participants, messages) ==
    [type |-> type, timestamp |-> timestamp, participants |-> participants,
     messages |-> messages]
Sent(timestamp, sender, content) ==
    [timestamp |-> timestamp, sender |-> sender, content |-> content]

Cy == <<"Cy">>
AnnTel == <<Ann, <<"+1">> >>
BobTel == <<Bob, <<"+2">> >>
CyTel == <<Cy, <<"+3">> >>

\* two threads of Ann and Bob in two files, with the participants ranged in
\* either order, one of them stamped in a zone a quarter of an hour east; a
\* thread of all three; a thread of Ann alone; a voicemail.  The timestamp
\* of a chat is that of its first message, and every timestamp is one that
\* is read back from the database.
StoredConversations ==
    { Stored("chat", Time(1, 0), <<AnnTel, BobTel>>,
             << Sent(Time(1, 0), Ann, <<"hi">>), Sent(Time(3, 0), Bob, <<"yo">>) >>),
      Stored("chat", Time(2, 15), <<BobTel, AnnTel>>,
             << Sent(Time(2, 15), Bob, <<"ok">>) >>),
      Stored("chat", Time(2, 0), <<CyTel, AnnTel, BobTel>>,
             << Sent(Time(2, 0), Cy, <<"all">>) >>),
      Stored("chat", Time(1, 0), <<AnnTel>>, << Sent(Time(1, 0), Ann, <<"me">>) >>),
      Stored("voicemail", Time(4, 0), <<BobTel, AnnTel>>, << >>) }

\* the loop of insertConversation over conv.Participants, on the pairs ps
RECURSIVE persistParticipants(_, _, _, _)
persistParticipants(d, convID, ps, contactIDs) ==
    IF ps = << >> THEN [data |-> d, contactIDs |-> contactIDs]
    ELSE LET name == ps[1][1]
             number == ps[1][2]
             d1 == InsertOrIgnoreContact(d, name, number)
             contactID == SelectContactID(d1, name, number)
             d2 == Insert(d1, "participant",
                     [id |-> 0, conversation_id |-> convID, contact_id |-> contactID])
         IN  persistParticipants(d2, convID, Tail(ps),
                {e \in contactIDs : e[1] /= name} \cup {<<name, contactID>>})

\* the loop of insertConversation over conv.Messages, none with an image
RECURSIVE persistMessages(_, _, _, _)
persistMessages(d, convID, ms, contactIDs) ==
    IF ms = << >> THEN [ok |-> TRUE, data |-> d]
    ELSE LET found == lookup(contactIDs, ms[1].sender)
         IN  IF found = {} THEN [ok |-> FALSE, data |-> d]
             ELSE persistMessages(
                    Insert(d, "message",
                        [id |-> 0, conversation_id |-> convID,
                         timestamp |-> ms[1].timestamp,
                         sender_contact_id |-> (CHOOSE e \in found : TRUE)[2],
                         content |-> ms[1].content]),
                    convID, Tail(ms), contactIDs)

\* insertConversation without a failure of the database: the rows one
\* Conversation adds, none when a sender is no participant
Persist(d, c) ==
    LET d0 == Insert(d, "conversation",
                [id |-> 0, type |-> c.type, timestamp |-> c.timestamp,
                 duration |-> << >>, transcript |-> << >>,
                 source_file |-> HtmlName(Len(d.conversation) + 1)])
        convID == LastInsertId(d0, "conversation")
        withParticipants == persistParticipants(d0, convID, c.participants, {})
        withMessages == persistMessages(withParticipants.data, convID, c.messages,
                                        withParticipants.contactIDs)
    IN  IF withMessages.ok THEN withMessages.data ELSE AfterRollback(d, [open |-> TRUE, data |-> withMessages.data])
RECURSIVE PersistAll(_, _)
PersistAll(d, cs) ==
    IF cs = << >> THEN d ELSE PersistAll(Persist(d, Head(cs)), Tail(cs))

\* the databases the Reconciler is asked about: what the parser leaves of
\* up to MaxConvs Conversations, stored one after the other from nothing
PersistedDBs ==
    { PersistAll(EmptyDB, cs) : cs \in SeqsUpTo(StoredConversations, MaxConvs) }

\* the contact sets a query can name
Targets(d) == (SUBSET {d.contact[k].id : k \in 1..Len(d.contact)}) \ {{}}

\* the storage layer hands out the rows an ORDER BY does not separate in
\* stored order or in the opposite order
ReadOrders == {"stored", "reversed"}
Reverse(s) == [k \in 1..Len(s) |-> s[Len(s) + 1 - k]]
Read(s, order) == IF order = "stored" THEN s ELSE Reverse(s)

\* the participant rows ordered by conversation id
participantRows(d, order) ==
    OrderBy(Read(d.participant, order), "conversation_id", "ASC")

\* the streaming pass before its first row: no conversation in progress
newPass(target, rows, earlier) ==
    [op |-> "messages", pc |-> "pass", target |-> target, rows |-> rows, i |-> 1,
     current |-> 0, acc |-> {}, valid |-> TRUE, validIDs |-> << >>,
     verdicts |-> << >>, messages |-> << >>, earlier |-> earlier]

\* as if a subset of the target were enough
closeOutOnFlagAlone(st) ==
    IF st.current = 0 THEN st
    ELSE [st EXCEPT
            !.validIDs = IF st.valid THEN Append(@, st.current) ELSE @,
            !.verdicts = Append(@, [id |-> st.current, valid |-> st.valid])]

\* closing out the conversation in progress: it is valid when the flag is
\* still set and the accumulated contacts are as many as the target's
closeOut(st) ==
    IF st.current = 0 THEN st
    ELSE LET ok == st.valid /\ Cardinality(st.acc) = Cardinality(st.target)
         IN  [st EXCEPT
                !.validIDs = IF ok THEN Append(@, st.current) ELSE @,
                !.verdicts = Append(@, [id |-> st.current, valid |-> ok])]

\* as if the flag and the accumulator were kept across conversations
passRowWithoutReset(st, row) ==
    LET s1 == IF row.conversation_id /= st.current
              THEN [closeOut(st) EXCEPT !.current = row.conversation_id]
              ELSE st
    IN  [s1 EXCEPT !.valid = @ /\ row.contact_id \in st.target,
                   !.acc = @ \cup {row.contact_id},
                   !.i = @ + 1]

\* one participant row: a new conversation id closes out the conversation in
\* progress and resets the accumulator and the flag; a contact outside the
\* target clears the flag; the contact is accumulated
passRow(st, row) ==
    LET s1 == IF row.conversation_id /= st.current
              THEN [closeOut(st) EXCEPT !.current = row.conversation_id,
                                        !.acc = {}, !.valid = TRUE]
              ELSE st
    IN  [s1 EXCEPT !.valid = @ /\ row.contact_id \in st.target,
                   !.acc = @ \cup {row.contact_id},
                   !.i = @ + 1]

\* the sender of a message row, resolved against the contact table
withSender(d, m) ==
    [id |-> m.id, conversation_id |-> m.conversation_id, timestamp |-> m.timestamp,
     sender_contact_id |-> m.sender_contact_id,
     sender_name |-> contactsWithID(d, m.sender_contact_id)[1].name,
     sender_number |-> contactsWithID(d, m.sender_contact_id)[1].phone_number,
     content |-> m.content]

\* the order of a Group's messages: ORDER BY timestamp DESC over the merged
\* rows, which the database compares as it does for every ORDER BY on that
\* column
mostRecentFirst(ms) == orderByTimestamp(ms, "DESC")

\* as if only the first valid conversation were read
messagesOfFirst(d, ids) ==
    LET of == SelectSeq(d.message,
                LAMBDA m : ids /= << >> /\ m.conversation_id = ids[1])
    IN  mostRecentFirst([k \in 1..Len(of) |-> withSender(d, of[k])])

\* the messages of the valid conversations, merged
mergedMessages(d, ids) ==
    LET of == SelectSeq(d.message,
                LAMBDA m : \E k \in 1..Len(ids) : m.conversation_id = ids[k])
    IN  mostRecentFirst([k \in 1..Len(of) |-> withSender(d, of[k])])

ReconcileInit ==
    /\ db \in PersistedDBs
    /\ rec = NoReconcile
    /\ view = NoRequest
    /\ resolution = NoResolution
    /\ par = << >>
    /\ doc = << >>
    /\ pos = 0
    /\ conversation = ZeroConversation
    /\ pstate = "idle"
    /\ dir = << >>
    /\ format = "sqlite"
    /\ fi = 0
    /\ mpc = "idle"
    /\ stdout = << >>
    /\ log = << >>
    /\ lastErr = ""
    /\ parsed = << >>
    /\ attempted = << >>
    /\ tx = NoTx
    /\ ins = NoInsert

ReconcileUnchanged ==
    UNCHANGED <<doc, pos, conversation, pstate, dir, view, format, fi, mpc, stdout, log,
                lastErr, parsed, attempted, resolution, par, db, tx, ins>>

\* "messages for a specific contact-identity set": the participant rows are
\* read, ordered by conversation id
QueryBegin ==
    /\ rec.op = "idle"
    /\ \E target \in Targets(db), order \in ReadOrders :
          rec' = newPass(target, participantRows(db, order), << >>)
    /\ ReconcileUnchanged

\* the same query once more, on the same database
QueryAgain ==
    /\ rec.op = "messages" /\ rec.pc = "done"
    /\ Len(rec.earlier) + 1 < MaxRuns
    /\ \E order \in ReadOrders :
          rec' = newPass(rec.target, participantRows(db, order),
                         Append(rec.earlier, rec.messages))
    /\ ReconcileUnchanged

\* the pass takes the next participant row
PassRow ==
    /\ rec.op = "messages" /\ rec.pc = "pass"
    /\ rec.i <= Len(rec.rows)
    /\ rec' = passRow(rec, rec.rows[rec.i])
    /\ ReconcileUnchanged

\* after the last row the conversation in progress is closed out
PassEnd ==
    /\ rec.op = "messages" /\ rec.pc = "pass"
    /\ rec.i > Len(rec.rows)
    /\ rec' = [closeOut(rec) EXCEPT !.pc = "fetch"]
    /\ ReconcileUnchanged

\* the messages of the valid conversations are read
QueryMessages ==
    /\ rec.op = "messages" /\ rec.pc = "fetch"
    /\ rec' = [rec EXCEPT !.messages = mergedMessages(db, rec.validIDs),
                          !.pc = "done"]
    /\ ReconcileUnchanged

\* the contact ids of the participants of a conversation, as read
contactsOf(d, convID, order) ==
    LET of == SelectSeq(Read(d.participant, order),
                        LAMBDA p : p.conversation_id = convID)
    IN  [k \in 1..Len(of) |-> of[k].contact_id]

\* strconv.Itoa of a positive id: its decimal digits
RECURSIVE Itoa(_)
Itoa(n) ==
    LET digit(k) == IF k = 0 THEN "0" ELSE Digits[k]
    IN  IF n < 10 THEN << digit(n) >> ELSE Itoa(n \div 10) \o << digit(n % 10) >>

\* as if the key joined the contact ids in the order read
unsortedKey(ids) == Join([k \in 1..Len(ids) |-> Itoa(ids[k])], <<",">>)

\* the key of a Group: the contact ids sorted, joined with commas
groupKey(ids) ==
    LET sorted == sortInts(ids)
    IN  Join([k \in 1..Len(sorted) |-> Itoa(sorted[k])], <<",">>)

\* the conversation rows in the order of the scan, that of getConversations:
\* ORDER BY c.timestamp DESC
mostRecentConversationFirst(d) == orderByTimestamp(d.conversation, "DESC")

newOverview(scan, order, earlier) ==
    [op |-> "groups", pc |-> "scan", scan |-> scan, order |-> order, i |-> 1,
     groups |-> << >>, earlier |-> earlier]

GroupOf(c, key, ids) ==
    [key |-> key, participants |-> sortInts(ids),
     type |-> c.type, timestamp |-> c.timestamp, last_conversation_id |-> c.id]

\* as if every conversation opened a Group of its own
scanAlwaysAdds(st, c, ids) ==
    [st EXCEPT !.groups = Append(@, GroupOf(c, groupKey(ids), ids)), !.i = @ + 1]

\* one conversation of the scan: a key seen for the first time becomes a
\* Group with this conversation as its representative; a key seen before
\* adds nothing
scanConversation(st, c, ids) ==
    LET key == groupKey(ids)
    IN  IF \E k \in 1..Len(st.groups) : st.groups[k].key = key
        THEN [st EXCEPT !.i = @ + 1]
        ELSE [st EXCEPT !.groups = Append(@, GroupOf(c, key, ids)), !.i = @ + 1]

\* "list groups": the conversations are read, most recent first
GroupsBegin ==
    /\ rec.op = "idle"
    /\ \E order \in ReadOrders :
          rec' = newOverview(mostRecentConversationFirst(db), order, << >>)
    /\ ReconcileUnchanged

\* the scan takes the next conversation and reads its participants
GroupsScan ==
    /\ rec.op = "groups" /\ rec.pc = "scan"
    /\ rec.i <= Len(rec.scan)
    /\ LET c == rec.scan[rec.i]
       IN  rec' = scanConversation(rec, c, contactsOf(db, c.id, rec.order))
    /\ ReconcileUnchanged

\* the Groups are returned
GroupsEnd ==
    /\ rec.op = "groups" /\ rec.pc = "scan"
    /\ rec.i > Len(rec.scan)
    /\ rec' = [rec EXCEPT !.pc = "done"]
    /\ ReconcileUnchanged

\* the same query once more, on the same database
GroupsAgain ==
    /\ rec.op = "groups" /\ rec.pc = "done"
    /\ Len(rec.earlier) + 1 < MaxRuns
    /\ \E order \in ReadOrders :
          rec' = newOverview(mostRecentConversationFirst(db), order,
                             Append(rec.earlier, rec.groups))
    /\ ReconcileUnchanged

ReconcileNext ==
    \/ QueryBegin
    \/ PassRow
    \/ PassEnd
    \/ QueryMessages
    \/ QueryAgain
    \/ GroupsBegin
    \/ GroupsScan
    \/ GroupsEnd
    \/ GroupsAgain

SpecReconcile == ReconcileInit /\ [][ReconcileNext]_vars

\* ------------------------------------------------------------------------
\* properties of the Reconciler
\* ------------------------------------------------------------------------
\* the contacts the participant rows of a conversation name
ParticipantSet(d, convID) ==
    {d.participant[k].contact_id :
        k \in {j \in 1..Len(d.participant) : d.participant[j].conversation_id = convID}}

QueryDone == rec.op = "messages" /\ rec.pc = "done"

\* C21: exact-set matching: every message that a query for a target contact
\* set returns belongs to a conversation whose participant contact set equals
\* the target; the messages of a conversation whose participants are a proper
\* subset or a proper superset of the target are never in the result.
ExactSetOnly ==
    QueryDone =>
        \A k \in 1..Len(rec.messages) :
            ParticipantSet(db, rec.messages[k].conversation_id) = rec.target

\* a query for {Ann, Bob} has returned messages, on a database that also
\* holds messages of Ann alone and of all three contacts
SubsetAndSupersetStored ==
    /\ QueryDone /\ Cardinality(rec.target) = 2 /\ rec.messages /= << >>
    /\ \E m \in 1..Len(db.message) :
          LET set == ParticipantSet(db, db.message[m].conversation_id)
          IN  set \subseteq rec.target /\ Cardinality(set) = 1
    /\ \E m \in 1..Len(db.message) :
          LET set == ParticipantSet(db, db.message[m].conversation_id)
          IN  rec.target \subseteq set /\ Cardinality(set) = 3

GroupsDone == rec.op = "groups" /\ rec.pc = "done"

\* the contacts of a Group, as a set
GroupSet(g) == {g.participants[k] : k \in 1..Len(g.participants)}

\* C22: the Groups partition the persisted conversations: when the overview
\* is done every conversation has exactly one Group with its participant
\* contact set, every Group has the set of at least one conversation, and no
\* two Groups have the same set or the same key.
GroupsPartition ==
    GroupsDone =>
        /\ \A c \in 1..Len(db.conversation) :
              Cardinality({k \in 1..Len(rec.groups) :
                  GroupSet(rec.groups[k]) = ParticipantSet(db, c)}) = 1
        /\ \A k \in 1..Len(rec.groups) :
              \E c \in 1..Len(db.conversation) :
                  GroupSet(rec.groups[k]) = ParticipantSet(db, c)
        /\ \A j, k \in 1..Len(rec.groups) :
              j /= k => /\ rec.groups[j].key /= rec.groups[k].key
                        /\ GroupSet(rec.groups[j]) /= GroupSet(rec.groups[k])

\* the overview is done on three conversations, two of them with the same
\* participants read in different orders, and has two Groups
TwoThreadsThreeFiles ==
    /\ GroupsDone /\ Len(db.conversation) = 3 /\ Len(rec.groups) = 2
    /\ \E a, b \in 1..3 :
          /\ a /= b
          /\ ParticipantSet(db, a) = ParticipantSet(db, b)
          /\ contactsOf(db, a, rec.order) /= contactsOf(db, b, rec.order)

\* the stored messages of the conversations whose participants are the set
MessagesOfSet(d, set) ==
    {m \in 1..Len(d.message) : ParticipantSet(d, d.message[m].conversation_id) = set}

\* C23: merge never drops: the list a query returns for a contact set holds
\* every stored message of every conversation with exactly that participant
\* set, and is as long as the message counts of those conversations together.
MergeNeverDrops ==
    QueryDone =>
        /\ \A m \in MessagesOfSet(db, rec.target) :
              \E k \in 1..Len(rec.messages) :
                  /\ rec.messages[k].id = db.message[m].id
                  /\ rec.messages[k].content = db.message[m].content
        /\ Len(rec.messages) = Cardinality(MessagesOfSet(db, rec.target))

\* the query for {Ann, Bob} is done on a database where two conversations
\* with messages have that set, and has returned the three messages of both
TwoFilesMerged ==
    /\ QueryDone /\ Cardinality(rec.target) = 2 /\ Len(rec.messages) = 3
    /\ Len(rec.validIDs) = 2
    /\ \A k \in 1..2 :
          \E m \in 1..Len(db.message) : db.message[m].conversation_id = rec.validIDs[k]

KeysOf(groups) == [k \in 1..Len(groups) |-> groups[k].key]

\* C24: reconciliation is idempotent and does not depend on the order in
\* which the participant rows of a conversation are read: a repeated overview
\* of the same database gives the same keys as every earlier one, a repeated
\* query for the same contact set gives as many messages as every earlier
\* one, and each conversation has the key of its Group in either read order.
ReconcileTwiceSame ==
    /\ GroupsDone =>
          /\ \A e \in 1..Len(rec.earlier) : KeysOf(rec.earlier[e]) = KeysOf(rec.groups)
          /\ \A c \in 1..Len(db.conversation), o \in ReadOrders :
                \E k \in 1..Len(rec.groups) :
                    /\ rec.groups[k].key = groupKey(contactsOf(db, c, o))
                    /\ GroupSet(rec.groups[k]) = ParticipantSet(db, c)
    /\ QueryDone =>
          \A e \in 1..Len(rec.earlier) : Len(rec.earlier[e]) = Len(rec.messages)

\* a second overview is done, having read the participants of some
\* conversation in an order that is not the sorted one
RereadInAnotherOrder ==
    /\ GroupsDone /\ Len(rec.earlier) = 1 /\ Len(rec.groups) >= 2
    /\ \E c \in 1..Len(db.conversation) :
          /\ contactsOf(db, c, rec.order) /= contactsOf(db, c, "stored")
          /\ contactsOf(db, c, rec.order) /= sortInts(contactsOf(db, c, rec.order))

\* C25: the message list a query returns for a contact set is ordered by
\* timestamp descending, most recent first, across all the conversations
\* merged into it.
MostRecentMessageFirst ==
    QueryDone =>
        \A j, k \in 1..Len(rec.messages) :
            j < k => rec.messages[j].timestamp.unix >= rec.messages[k].timestamp.unix

\* the pass is never left half-way: it takes its rows one after the other,
\* closes out the last conversation and reads the messages
FairReconcile ==
    SpecReconcile /\ WF_vars(PassRow) /\ WF_vars(PassEnd) /\ WF_vars(QueryMessages)

\* the verdict of a pass on rows of one conversation, nothing before them
RECURSIVE PassFrom(_)
PassFrom(st) ==
    IF st.i > Len(st.rows) THEN closeOut(st) ELSE PassFrom(passRow(st, st.rows[st.i]))
VerdictAlone(target, rows) == PassFrom(newPass(target, rows, << >>)).verdicts[1].valid

\* the conversation ids of the rows, each once, in the order of the rows
RECURSIVE IdsOf(_)
IdsOf(rows) ==
    IF rows = << >> THEN << >>
    ELSE LET rest == IdsOf(Tail(rows))
         IN  IF rest /= << >> /\ rest[1] = rows[1].conversation_id
             THEN rest ELSE << rows[1].conversation_id >> \o rest

\* the verdicts given so far are those of the conversations alone
VerdictsFromOwnRows ==
    rec.op = "messages" =>
        \A v \in 1..Len(rec.verdicts) :
            LET id == rec.verdicts[v].id
            IN  rec.verdicts[v].valid =
                    VerdictAlone(rec.target,
                        SelectSeq(rec.rows, LAMBDA r : r.conversation_id = id))

\* once the rows are used up every conversation of the stream, the last one
\* included, has one verdict
AllClosedOut ==
    (rec.op = "messages" /\ rec.pc /= "pass") =>
        [v \in 1..Len(rec.verdicts) |-> rec.verdicts[v].id] = IdsOf(rec.rows)

\* C26: in the streaming pass the verdict of each conversation is the one
\* its own participant rows give when passed alone, whatever conversations
\* come before it in the stream, and every pass that has begun goes on until
\* each conversation of the stream, the last one included, has its verdict.
VerdictPerConversation ==
    /\ [](VerdictsFromOwnRows /\ AllClosedOut)
    /\ [](rec.op = "messages" => <>(rec.op = "messages" /\ rec.pc = "done"))

\* the pass is done on a stream where a conversation with a contact outside
\* the target is followed by a valid one, and the last conversation is valid
InvalidThenValidLast ==
    /\ QueryDone /\ Len(rec.verdicts) = 3
    /\ ~rec.verdicts[1].valid /\ rec.verdicts[3].valid
    /\ \E k \in 1..Len(rec.rows) :
          /\ rec.rows[k].conversation_id = rec.verdicts[1].id
          /\ rec.rows[k].contact_id \notin rec.target

\* the conversations whose participants are the contacts of the Group
ConversationsOf(d, g) ==
    {c \in 1..Len(d.conversation) : ParticipantSet(d, c) = GroupSet(g)}

\* C27: in the group overview the representative type, timestamp and last
\* conversation id of each Group are those of the most recent conversation
\* with the Group's participant set, the one with the highest timestamp: no
\* conversation with that set is later in time than the representative.  A
\* conversation scanned later replaces no representative and adds no second
\* Group for its set.
RepresentativeIsMostRecent ==
    GroupsDone =>
        /\ \A k \in 1..Len(rec.groups) :
              LET g == rec.groups[k]
              IN  \E c \in ConversationsOf(db, g) :
                    /\ g.last_conversation_id = db.conversation[c].id
                    /\ g.type = db.conversation[c].type
                    /\ g.timestamp = db.conversation[c].timestamp
                    /\ \A o \in ConversationsOf(db, g) :
                          db.conversation[o].timestamp.unix <= g.timestamp.unix
        /\ \A j, k \in 1..Len(rec.groups) :
              j /= k => GroupSet(rec.groups[j]) /= GroupSet(rec.groups[k])

\* ------------------------------------------------------------------------
\* properties of the stored rows
\* ------------------------------------------------------------------------
\* the sender of every message row of d is the contact of a participant row
\* of the same conversation
SendersParticipate(d) ==
    \A m \in 1..Len(d.message) :
        \E p \in 1..Len(d.participant) :
            /\ d.participant[p].conversation_id = d.message[m].conversation_id
            /\ d.participant[p].contact_id = d.message[m].sender_contact_id

\* a message of the Conversation has a sender that is no key of Participants
HasStrangerSender(conv) ==
    \E k \in 1..Len(conv.Messages) : ~HasKey(conv.Participants, conv.Messages[k].Sender)

\* C28: after any sequence of insertions every message row, committed or
\* being written, has as sender a contact that a participant row of the same
\* conversation names, and no conversation row, message row or participant
\* row is committed for a file whose Conversation holds a message with a
\* sender that is not a key of its participants.
StoredSenderIsParticipant ==
    /\ SendersParticipate(db)
    /\ tx.open => SendersParticipate(tx.data)
    /\ \A i \in 1..Len(parsed) :
          HasStrangerSender(parsed[i].conv) =>
              \A c \in 1..Len(db.conversation) :
                  db.conversation[c].source_file /= parsed[i].file

\* a chat with two senders is committed and after it the insertion of a
\* Conversation with a stranger sender has ended, its rows rolled back
StrangerRolledBack ==
    /\ mpc = "done" /\ Len(db.message) = 2 /\ Len(db.conversation) = 1
    /\ db.message[1].sender_contact_id /= db.message[2].sender_contact_id
    /\ \E i \in 1..Len(parsed) : HasStrangerSender(parsed[i].conv)
    /\ lastErr = "Failed to find contact ID for sender"

\* ------------------------------------------------------------------------
\* the viewer: requests on the database the parser writes
\* ------------------------------------------------------------------------
\* limit := 10, the conversations on a page of the index
PageSize == 10

\* what a query of another connection sees of the database while a
\* transaction of the parser is open, as if it read uncommitted rows
visibleUncommitted(committed, t) == IF t.open THEN t.data ELSE committed

\* what a query of another connection sees of the database: the rows
\* committed so far, nothing of an open transaction
visible(committed, t) == committed

\* the characters of a string, which the model holds as a sequence of tokens
Spell(s) ==
    Join([t \in 1..Len(s) |-> [k \in 1..Len(s[t]) |-> SubSeq(s[t], k, k)]], << >>)

\* LIKE compares the ASCII letters without regard to case
UpperCase == "ABCDEFGHIJKLMNOPQRSTUVWXYZ"
LowerCase == "abcdefghijklmnopqrstuvwxyz"
ToLower(s) ==
    [k \in 1..Len(s) |->
        IF \E l \in 1..Len(UpperCase) : SubSeq(UpperCase, l, l) = s[k]
        THEN LET l == CHOOSE l \in 1..Len(UpperCase) : SubSeq(UpperCase, l, l) = s[k]
             IN  SubSeq(LowerCase, l, l)
        ELSE s[k]]

\* the characters of value match those of pattern, in which % stands for
\* any characters, none included, and _ for any one character
RECURSIVE likeCompare(_, _)
likeCompare(pattern, value) ==
    IF pattern = << >> THEN value = << >>
    ELSE IF Head(pattern) = "%"
    THEN \E k \in 0..Len(value) :
            likeCompare(Tail(pattern), SubSeq(value, k + 1, Len(value)))
    ELSE /\ value /= << >>
         /\ Head(pattern) = "_" \/ Head(pattern) = Head(value)
         /\ likeCompare(Tail(pattern), Tail(value))

\* value LIKE "%" + searchTerm + "%"
Like(value, searchTerm) ==
    likeCompare(<<"%">> \o ToLower(Spell(searchTerm)) \o <<"%">>, ToLower(Spell(value)))

\* SELECT ... FROM conversation WHERE id = ? and the Scan of its row: an
\* error when there is no such row and when its timestamp is not read back
getConversationByID(d, id) ==
    IF id \notin 1..Len(d.conversation) THEN [err |-> TRUE, c |-> << >>]
    ELSE IF scanTimestamp(d.conversation[id].timestamp).err
    THEN [err |-> TRUE, c |-> << >>]
    ELSE [err |-> FALSE, c |-> d.conversation[id]]

\* the message rows of a conversation, ORDER BY m.timestamp ASC
messagesOf(d, id) ==
    orderByTimestamp(SelectSeq(d.message, LAMBDA m : m.conversation_id = id), "ASC")

\* getTranscript: the stored transcript of a voicemail, else the first five
\* messages as "name: content\n"
getTranscript(d, id, type) ==
    IF type = "voicemail"
    THEN d.conversation[id].transcript
    ELSE LET ms == SelectSeq(messagesOf(d, id),
                        LAMBDA m : contactsWithID(d, m.sender_contact_id) /= << >>)
             n == IF Len(ms) < 5 THEN Len(ms) ELSE 5
             line(m) == contactsWithID(d, m.sender_contact_id)[1].name \o <<": ">>
                            \o m.content \o <<"\n">>
         IN  Join([k \in 1..n |-> line(ms[k])], << >>)

\* the orders a query may return rows in that no ORDER BY separates
rowOrders(s) ==
    { [k \in 1..Len(s) |-> s[p[k]]] :
        p \in {f \in [1..Len(s) -> 1..Len(s)] :
                 \A j, k \in 1..Len(s) : j /= k => f[j] /= f[k]} }

\* getMessagesByConversationID: message LEFT JOIN image LEFT JOIN contact,
\* a row for every image of a message and one row for a message without.
\* The query orders by m.timestamp alone, so the rows of the images of one
\* message come in an order SQLite chooses: every result it may give.  Each
\* row is scanned as it comes; at the first row whose timestamp is not read
\* back the function returns the error and no messages.
RECURSIVE joinImages(_, _)
joinImages(d, ms) ==
    IF ms = << >> THEN { [err |-> FALSE, messages |-> << >>] }
    ELSE LET m == Head(ms)
             imgs == SelectSeq(d.image, LAMBDA i : i.message_id = m.id)
             row(url) ==
                [ID |-> m.id, Timestamp |-> scanTimestamp(m.timestamp).t,
                 SenderContactID |-> m.sender_contact_id,
                 SenderName |-> contactsWithID(d, m.sender_contact_id)[1].name,
                 SenderNumber |-> contactsWithID(d, m.sender_contact_id)[1].phone_number,
                 Content |-> m.content, ImageURL |-> url]
             rows == IF imgs = << >> THEN { << row(<< >>) >> }
                     ELSE { [k \in 1..Len(is) |-> row(<< is[k].image_url >>)] :
                              is \in rowOrders(imgs) }
         IN  IF scanTimestamp(m.timestamp).err
             THEN { [err |-> TRUE, messages |-> << >>] }
             ELSE { IF rest.err THEN [err |-> TRUE, messages |-> << >>]
                    ELSE [err |-> FALSE, messages |-> r \o rest.messages] :
                        r \in rows, rest \in joinImages(d, Tail(ms)) }
getMessagesByConversationID(d, id) == joinImages(d, messagesOf(d, id))

\* getParticipants: participant JOIN contact
getParticipants(d, id) ==
    LET ps == SelectSeq(d.participant,
                LAMBDA p : /\ p.conversation_id = id
                           /\ contactsWithID(d, p.contact_id) /= << >>)
    IN  [k \in 1..Len(ps) |->
            [ID |-> ps[k].id, ContactID |-> ps[k].contact_id,
             Name |-> contactsWithID(d, ps[k].contact_id)[1].name,
             PhoneNumber |-> contactsWithID(d, ps[k].contact_id)[1].phone_number]]

\* the WHERE clause of getConversations over conversation LEFT JOIN message
\* LEFT JOIN contact: the transcript, the content of a message or the name
\* of the sender of a message is LIKE the pattern
matches(d, c, searchTerm) ==
    \/ Like(c.transcript, searchTerm)
    \/ \E k \in 1..Len(d.message) :
          /\ d.message[k].conversation_id = c.id
          /\ \/ Like(d.message[k].content, searchTerm)
             \/ \E ct \in 1..Len(d.contact) :
                    /\ d.contact[ct].id = d.message[k].sender_contact_id
                    /\ Like(d.contact[ct].name, searchTerm)

\* the query of getConversations: SELECT DISTINCT ... ORDER BY c.timestamp
\* DESC LIMIT ? OFFSET ?
conversationRows(d, limit, offset, searchTerm) ==
    LET found == orderByTimestamp(
                    SelectSeq(d.conversation, LAMBDA c : matches(d, c, searchTerm)),
                    "DESC")
        last == IF Len(found) < offset + limit THEN Len(found) ELSE offset + limit
    IN  SubSeq(found, offset + 1, last)

\* SELECT COUNT(*) FROM conversation WHERE transcript LIKE ?
getTotalConversationCount(d, searchTerm) ==
    Len(SelectSeq(d.conversation, LAMBDA c : Like(c.transcript, searchTerm)))

\* the search terms and the pages a request asks for
SearchTerms == { << >>, <<"hi">>, <<"BOB">> }
PagesAsked == {1, 2}

\* the parser writes conversations.db from files that open and parse while
\* the viewer serves requests on it
ViewerInit ==
    /\ Init
    /\ format = "sqlite"
    /\ \A k \in 1..Len(dir) :
          dir[k].content \in {"bytes", "mms", "quarter", "voicemail"}

ViewerUnchanged ==
    UNCHANGED <<doc, pos, conversation, pstate, dir, rec, format, fi, mpc, stdout, log,
                lastErr, parsed, attempted, resolution, par, db, tx, ins>>

\* conversationDetailHandler up to getConversationByID; on its error the
\* handler answers 500
DetailBegin ==
    /\ view.handler = "idle"
    /\ \E id \in 1..MaxFiles :
          LET got == getConversationByID(visible(db, tx), id)
          IN  view' = IF got.err
                      THEN [handler |-> "detail", pc |-> "error", id |-> id]
                      ELSE [handler |-> "detail", pc |-> "transcript", id |-> id,
                            conversation |-> got.c, messages |-> << >>,
                            participants |-> << >>]
    /\ ViewerUnchanged

\* transcript, err := getTranscript(id, conversation.Type)
DetailTranscript ==
    /\ view.handler = "detail" /\ view.pc = "transcript"
    /\ view' = [view EXCEPT
                  !.conversation.transcript =
                      getTranscript(visible(db, tx), view.id, view.conversation.type),
                  !.pc = "messages"]
    /\ ViewerUnchanged

\* messages, err := getMessagesByConversationID(id); on its error the
\* handler answers 500
DetailMessages ==
    /\ view.handler = "detail" /\ view.pc = "messages"
    /\ \E got \in getMessagesByConversationID(visible(db, tx), view.id) :
          view' = IF got.err
                  THEN [handler |-> "detail", pc |-> "error", id |-> view.id]
                  ELSE [view EXCEPT !.messages = got.messages, !.pc = "participants"]
    /\ ViewerUnchanged

\* participants, err := getParticipants(id), and the page is rendered
DetailParticipants ==
    /\ view.handler = "detail" /\ view.pc = "participants"
    /\ view' = [view EXCEPT
                  !.participants = getParticipants(visible(db, tx), view.id),
                  !.pc = "rendered"]
    /\ ViewerUnchanged

\* indexHandler up to the query of getConversations, whose rows are those
\* of the database as it is when the query is made
IndexBegin ==
    /\ view.handler = "idle"
    /\ \E page \in PagesAsked, searchTerm \in SearchTerms :
          view' = [handler |-> "index", pc |-> "row", page |-> page,
                   searchTerm |-> searchTerm,
                   rows |-> conversationRows(visible(db, tx), PageSize,
                                             (page - 1) * PageSize, searchTerm),
                   i |-> 1, participants |-> << >>,
                   conversations |-> << >>,
                   totalPages |-> 0, pages |-> << >>]
    /\ ViewerUnchanged

\* rows.Next() gives a row and it is scanned: when its timestamp is not
\* read back getConversations returns the error and indexHandler answers
\* 500; else participants, err := getParticipants(c.ID), a query of its own
IndexParticipants ==
    /\ view.handler = "index" /\ view.pc = "row"
    /\ view.i <= Len(view.rows)
    /\ view' = IF scanTimestamp(view.rows[view.i].timestamp).err
               THEN [view EXCEPT !.conversations = << >>, !.participants = << >>,
                                 !.pc = "error"]
               ELSE [view EXCEPT
                       !.participants =
                           getParticipants(visible(db, tx), view.rows[view.i].id),
                       !.pc = "transcript"]
    /\ ViewerUnchanged

\* transcript, err := getTranscript(c.ID, c.Type), a query of its own, and
\* the Conversation is appended
IndexTranscript ==
    /\ view.handler = "index" /\ view.pc = "transcript"
    /\ LET c == view.rows[view.i]
       IN  view' = [view EXCEPT
                      !.conversations = Append(@,
                          [ID |-> c.id, Type |-> c.type, Timestamp |-> c.timestamp,
                           Duration |-> c.duration,
                           Transcript |-> getTranscript(visible(db, tx), c.id, c.type),
                           Participants |-> view.participants]),
                      !.participants = << >>,
                      !.i = @ + 1,
                      !.pc = "row"]
    /\ ViewerUnchanged

\* rows.Next() gives no further row, getConversations returns: indexHandler
\* from getTotalConversationCount on, the pages are counted and
\* the page is rendered
IndexCount ==
    /\ view.handler = "index" /\ view.pc = "row"
    /\ view.i > Len(view.rows)
    /\ LET totalCount == getTotalConversationCount(visible(db, tx), view.searchTerm)
           totalPages == (totalCount + PageSize - 1) \div PageSize
       IN  view' = [view EXCEPT !.totalPages = totalPages,
                                !.pages = [i \in 1..totalPages |-> i],
                                !.pc = "rendered"]
    /\ ViewerUnchanged

\* the steps of the parser with -format sqlite on files that open and parse
IngestNext ==
    \/ MainOpen
    \/ MainParse
    \/ MainOutputSQLite
    \/ MainDone
    \/ StoreBegin
    \/ StoreConversation
    \/ StorePrepareParticipants
    \/ StoreParticipant
    \/ StorePrepare
    \/ StoreMessage
    \/ StoreImage
    \/ StoreCommit

\* the parser and requests for the page of a conversation
ViewerNext ==
    \/ IngestNext
    \/ DetailBegin
    \/ DetailTranscript
    \/ DetailMessages
    \/ DetailParticipants

SpecViewer == ViewerInit /\ [][ViewerNext]_vars

\* the parser and requests for the index
IndexNext ==
    \/ IngestNext
    \/ IndexBegin
    \/ IndexParticipants
    \/ IndexTranscript
    \/ IndexCount

SpecIndex == ViewerInit /\ [][IndexNext]_vars

\* ------------------------------------------------------------------------
\* properties of the viewer
\* ------------------------------------------------------------------------
\* the request has seen the conversation row
DetailSeen ==
    view.handler = "detail" /\ view.pc \in {"transcript", "messages", "participants", "rendered"}

\* C29: a viewer request never sees a conversation in a partial state: once
\* conversationDetailHandler has read a conversation row, that conversation
\* is committed whole, so its later queries return every message and every
\* participant of the Conversation the parser was given for that file,
\* under every interleaving with the steps of insertConversation.
WholeConversationSeen ==
    DetailSeen =>
        /\ view.id <= Len(db.conversation)
        /\ LET given == GivenFor(db.conversation[view.id].source_file)
           IN  /\ view.pc \in {"participants", "rendered"} =>
                     /\ {view.messages[k].ID : k \in 1..Len(view.messages)}
                            = {db.message[m].id :
                                 m \in {j \in 1..Len(db.message) :
                                          db.message[j].conversation_id = view.id}}
                     /\ Cardinality({view.messages[k].ID : k \in 1..Len(view.messages)})
                            = Len(given.Messages)
               /\ view.pc = "rendered" =>
                     {view.participants[k].Name : k \in 1..Len(view.participants)}
                         = Keys(given.Participants)

\* the request has read the two messages, one of them with two images, and
\* the two participants of a chat whose timestamps are all read back, while
\* the parser is half-way through the insertion of the next file
RenderedWhileInserting ==
    /\ view.handler = "detail" /\ view.pc = "rendered"
    /\ \E k \in 1..Len(view.messages) : view.messages[k].Timestamp.offset /= 0
    /\ Len(view.messages) = 3 /\ Len(view.participants) = 2
    /\ Cardinality({view.messages[k].ID : k \in 1..Len(view.messages)}) = 2
    /\ tx.open /\ Len(tx.data.conversation) > Len(db.conversation)
    /\ Len(tx.data.message) > Len(db.message)

\* the conversations a search lists when no page cuts the list
Matching(d, searchTerm) ==
    {c \in 1..Len(d.conversation) : matches(d, d.conversation[c], searchTerm)}

\* C30: the index offers as many pages as the conversations matching the
\* search (by transcript, message content or sender name) need at PageSize
\* a page: whenever indexHandler counts the pages, their number is the
\* number of matching conversations divided by PageSize, rounded up.
PagesCoverMatches ==
    [][IndexCount =>
          view'.totalPages =
              (Cardinality(Matching(db, view.searchTerm)) + PageSize - 1) \div PageSize]_vars

====
